---- MODULE Spec2Model ----
(***************************************************************************)
(* The button game of tomibotchiDiscordBot: the click handler              *)
(* (TimerButton.callback), the periodic timer loop                         *)
(* (MenuTimer.update_timer_task), the per-user cache (UserManager) and the *)
(* per-game cache, over the button_clicks and users tables.                *)
(*                                                                         *)
(* Time is a discrete clock `now`.  Every block of code between two        *)
(* suspension points (await) of the cooperative scheduler is one atomic    *)
(* action and reads the clock once; the clock may advance, and other       *)
(* tasks may run, between two such blocks.                                 *)
(***************************************************************************)
EXTENDS Integers, Sequences, FiniteSets, TLC

\* ---------------------------------------------------------------- bounds
NumUsers == 2
NumGames == 2
NumHandlers == 2
MaxTime == 3
MaxAttempts == 2
MaxRestarts == 1
MaxEnded == 2

\* --------------------------------------------------------- configuration
\* One clock unit is 15 minutes.  game_session['timer_duration'] (45 minutes)
\* and game_session['cooldown_duration'] (0.25 hours), the same for every game
\* session of the model.
timer_duration == 3
cooldown_duration == 1
\* datetime.timedelta(hours=0.25): the age after which the timer loop clears
\* a game cache entry
StaleWindow == 1

Users == 1..NumUsers
Games == 1..NumGames
Handlers == 1..NumHandlers

\* SQL NULL / Python None for a time
NoTime == -1

VARIABLES
    now,            \* datetime.now(timezone.utc) / UTC_TIMESTAMP()
    button_clicks,  \* table button_clicks, in order of its id column
    users,          \* table users, keyed by user_id
    user_cache,     \* UserManager.user_cache
    game_cache,     \* the per-game cache (GameCacheEntry per game id)
    paused_games,   \* module global paused_games of button_functions
    cb,             \* one record per running TimerButton.callback
    ended_events,   \* number of end-game edits sent per game
    finished_max,   \* latest click_time among the clicks whose handler ran to its end
    attempts,       \* number of callbacks started so far
    restarts,       \* number of process restarts so far
    tick            \* position of the timer loop in its pass over the game sessions

\* The pet simulation (game/interaction.py).  Its clock counts hours, its
\* stats are kept in half points (200 is the stat value 100).
VARIABLES
    clock,          \* datetime.now(timezone.utc), in hours
    pet_stats,      \* table pet_stats, keyed by pet_id
    managers,       \* the PetStateManager objects created so far, in order of creation
    pet_states,     \* StateManager._pet_states: pet_id -> index of its PetStateManager
    last_access,    \* StateManager._last_access: pet_id -> time
    sm_lock,        \* holder of StateManager._lock (0: free)
    views,          \* PetView.pet_state of the open views: indexes into managers
    pt,             \* one record per running pet task
    accepted,       \* the interactions that returned success, in order
    pet_ops         \* number of pet operations started so far

\* The functions that are evaluated on their own (colours, MMR, execute_query).
VARIABLES
    call            \* the arguments, progress and results of the function under evaluation

pet_vars == <<clock, pet_stats, managers, pet_states, last_access, sm_lock, views, pt,
              accepted, pet_ops>>

button_vars == <<now, button_clicks, users, user_cache, game_cache, paused_games, cb,
                 ended_events, finished_max, attempts, restarts, tick, call>>

\* everything but the function under evaluation
world_vars == <<now, button_clicks, users, user_cache, game_cache, paused_games, cb,
                ended_events, finished_max, attempts, restarts, tick, pet_vars>>

vars == <<now, button_clicks, users, user_cache, game_cache, paused_games, cb,
          ended_events, finished_max, attempts, restarts, tick, call, pet_vars>>

\* ------------------------------------------------------------ dictionaries
Put(d, k, v) == [x \in (DOMAIN d) \cup {k} |-> IF x = k THEN v ELSE d[x]]
Del(d, k) == [x \in (DOMAIN d) \ {k} |-> d[x]]
EmptyDict == [x \in {} |-> 0]

MaxOf(S) == CHOOSE x \in S : \A y \in S : y <= x
Max2(a, b) == IF a >= b THEN a ELSE b
Min2(a, b) == IF a <= b THEN a ELSE b

\* ---------------------------------------------------------- store queries
\* SELECT MAX(click_time) over a set of row ids; NULL when no row qualifies
sql_max_click_time(tbl, rows) ==
    IF rows = {} THEN NoTime ELSE MaxOf({tbl[i].click_time : i \in rows})

GameRows(tbl, g) == {i \in DOMAIN tbl : tbl[i].game_id = g}

\* click_time >= DATE_SUB(UTC_TIMESTAMP(), INTERVAL cd HOUR)
in_window(click_time, t, cd) == click_time >= t - cd

\* the aggregate query of the callback (first query)
select_click_aggregate(tbl, g, u, cd, t) ==
    [latest_click_time_overall |-> sql_max_click_time(tbl, GameRows(tbl, g)),
     latest_click_time_user |->
        sql_max_click_time(tbl, {i \in GameRows(tbl, g) :
            tbl[i].user_id = u /\ in_window(tbl[i].click_time, t, cd)}),
     total_clicks |-> Cardinality(GameRows(tbl, g)),
     total_players |-> Cardinality({tbl[i].user_id : i \in GameRows(tbl, g)})]

\* the cooldown query of the callback (second query): no game_id filter
select_user_cooldown(tbl, u, cd, t) ==
    sql_max_click_time(tbl, {i \in DOMAIN tbl :
        tbl[i].user_id = u /\ in_window(tbl[i].click_time, t, cd)})

\* a write that replaces the latest row instead of adding one
replace_button_click(tbl, u, t, tv, g) ==
    IF tbl = <<>> THEN <<[user_id |-> u, game_id |-> g, click_time |-> t, timer_value |-> tv]>>
    ELSE [tbl EXCEPT ![Len(tbl)] =
            [user_id |-> u, game_id |-> g, click_time |-> t, timer_value |-> tv]]

\* INSERT INTO button_clicks (user_id, click_time, timer_value, game_id)
insert_button_click(tbl, u, t, tv, g) ==
    Append(tbl, [user_id |-> u, game_id |-> g, click_time |-> t, timer_value |-> tv])

\* the cache-miss query of the timer loop:
\* button_clicks INNER JOIN users ... ORDER BY button_clicks.id DESC LIMIT 1
JoinedRows(tbl, usr, g) == {i \in GameRows(tbl, g) : tbl[i].user_id \in DOMAIN usr}
select_latest_click(tbl, usr, g) ==
    LET last == MaxOf(JoinedRows(tbl, usr, g)) IN
    [user_name |-> tbl[last].user_id,
     click_time |-> tbl[last].click_time,
     timer_value |-> tbl[last].timer_value,
     total_clicks |-> Cardinality(GameRows(tbl, g)),
     total_players |-> Cardinality({tbl[i].user_id : i \in GameRows(tbl, g)})]

\* INSERT INTO users ... ON DUPLICATE KEY UPDATE of the callback (cache miss)
upsert_user_on_miss(usr, u, t, g) ==
    IF u \in DOMAIN usr
    THEN [usr EXCEPT ![u].cooldown_expiration = NoTime]
    ELSE Put(usr, u, [cooldown_expiration |-> NoTime, color_rank |-> "NULL",
                      total_clicks |-> 0, lowest_click_time |-> t,
                      last_click_time |-> t, game_session |-> g])

\* ------------------------------------------------------------ UserManager
\* the users upsert of UserManager.add_or_update_user
upsert_user(usr, u, cooldown_expiration, color_rank, timer_value, t, g) ==
    IF u \in DOMAIN usr
    THEN [usr EXCEPT ![u].cooldown_expiration = cooldown_expiration,
                     ![u].color_rank = color_rank,
                     ![u].total_clicks = @ + 1,
                     ![u].lowest_click_time = Min2(@, timer_value),
                     ![u].last_click_time = t]
    ELSE Put(usr, u, [cooldown_expiration |-> cooldown_expiration,
                      color_rank |-> color_rank, total_clicks |-> 1,
                      lowest_click_time |-> timer_value,
                      last_click_time |-> t, game_session |-> g])

\* the cache entry UserManager.add_or_update_user stores
user_cache_entry(cooldown_expiration, color_rank, timer_value, u, g, t) ==
    [cooldown_expiration |-> cooldown_expiration, color_rank |-> color_rank,
     timer_value |-> timer_value, user_name |-> u, game_id |-> g,
     latest_click_time |-> t]

\* --------------------------------------------------------------- game cache
\* game_cache.update_game_cache: the entry written for a game
game_cache_entry(latest_click_time, total_clicks, total_players, user_name, last_timer_value, t) ==
    [latest_click_time |-> latest_click_time, total_clicks |-> total_clicks,
     total_players |-> total_players, latest_player_name |-> user_name,
     last_timer_value |-> last_timer_value, last_update_time |-> t]

update_game_cache(cache, g, latest_click_time, total_clicks, total_players, user_name, last_timer_value, t) ==
    Put(cache, g, game_cache_entry(latest_click_time, total_clicks,
                                   total_players, user_name, last_timer_value, t))

clear_game_cache(cache, g) == Del(cache, g)

\* ----------------------------------------------------------------- timer
\* max(timer_duration - elapsed_time, 0)
remaining_time(duration, t, latest_click_time) ==
    Max2(duration - (t - latest_click_time), 0)

\* ------------------------------------------------------------ paused games
\* paused_games is a Python list or, after the assignment of the result of
\* list.append, None.  The loop appends str(game_id); the keys of the game
\* sessions it tests with `in` are integers.
NoPausedGames == [is_none |-> FALSE, items |-> <<>>]
Truthy(p) == ~p.is_none /\ p.items # <<>>

\* `paused_games and game_id in paused_games`, game_id an int
is_paused(p, g) ==
    Truthy(p) /\ \E i \in DOMAIN p.items : p.items[i] = [type |-> "int", id |-> g]

\* lines 192-195: paused_games = paused_games.append(game_id), else [game_id]
pause_game(p, g) ==
    IF Truthy(p)
    THEN [is_none |-> TRUE, items |-> <<>>]
    ELSE [is_none |-> FALSE, items |-> <<[type |-> "str", id |-> g]>>]

\* ------------------------------------------------------------ initial state
IdleCallback ==
    [pc |-> "idle", user_id |-> 0, game_id |-> 0, click_time |-> NoTime,
     current_timer_value |-> 0, total_clicks |-> 0, total_players |-> 0,
     result |-> "none", cooldown_remaining |-> 0, rowid |-> 0,
     latest_click_time_user |-> NoTime, overlap |-> FALSE, after_end |-> FALSE]

\* the first click of a game (command insert_first_click): user g of game g,
\* at time 0, with the full timer
SeedClicks(seeded) ==
    LET RECURSIVE build(_)
        build(g) == IF g = 0 THEN <<>>
                    ELSE IF g \in seeded
                         THEN Append(build(g - 1),
                                     [user_id |-> ((g - 1) % NumUsers) + 1, game_id |-> g,
                                      click_time |-> 0, timer_value |-> timer_duration])
                         ELSE build(g - 1)
    IN build(NumGames)

\* ------------------------------------------------------------------- pets
NumPets == 1
NumPetTasks == 2
MaxManagers == 2
MaxClock == 3
MaxPetOps == 3

Pets == 1..NumPets
PetTasks == 1..NumPetTasks

\* a stat value of n points, in half points
P(n) == 2 * n
StatNames == {"happiness", "hunger", "energy", "hygiene"}
Stats(ha, hu, en, hy) == [happiness |-> P(ha), hunger |-> P(hu), energy |-> P(en), hygiene |-> P(hy)]

\* the row create_pet inserts, and rows of pets that have been played with:
\* a tired, a dirty, a hungry and a sad pet
NewPetStats == Stats(100, 100, 100, 100)
InitialStats ==
    {NewPetStats, Stats(60, 60, 15, 60), Stats(60, 60, 60, 25), Stats(60, 10, 60, 60),
     Stats(20, 95, 85, 60)}

IdleTask ==
    [pc |-> "idle", op |-> "none", pet |-> 0, inst |-> 0, itype |-> "none", t |-> 0,
     todo |-> {}, result |-> "none"]

\* the pet side after start-up: every pet has its row, nothing is loaded
PetStart(stats) ==
    /\ clock = 0
    /\ pet_stats = [p \in Pets |-> [stats |-> stats, last_update |-> 0]]
    /\ managers = <<>>
    /\ pet_states = EmptyDict
    /\ last_access = EmptyDict
    /\ sm_lock = 0
    /\ views = {}
    /\ pt = [k \in PetTasks |-> IdleTask]
    /\ accepted = <<>>
    /\ pet_ops = 0

\* the timer loop before its first pass; `cleared` is history: the games whose
\* stale cache entry the loop has cleared since the process started
IdleTick == [pos |-> 0, ran |-> FALSE, visited |-> {}, skipped |-> {}, failed |-> {},
             cleared |-> {}]

\* the state after start-up, with the games in `seeded` already played once
InitWith(seeded) ==
    /\ now = 0
    /\ button_clicks = SeedClicks(seeded)
    /\ users = [u \in {button_clicks[i].user_id : i \in DOMAIN button_clicks} |->
                  [cooldown_expiration |-> NoTime, color_rank |-> "NULL",
                   total_clicks |-> 0, lowest_click_time |-> 0,
                   last_click_time |-> 0,
                   game_session |-> CHOOSE g \in Games :
                       \E i \in DOMAIN button_clicks :
                           button_clicks[i].user_id = u /\ button_clicks[i].game_id = g]]
    /\ user_cache = EmptyDict
    /\ game_cache = EmptyDict
    /\ paused_games = NoPausedGames
    /\ cb = [h \in Handlers |-> IdleCallback]
    /\ ended_events = [g \in Games |-> 0]
    /\ finished_max = [g \in Games |-> sql_max_click_time(button_clicks, GameRows(button_clicks, g))]
    /\ attempts = 0
    /\ restarts = 0
    /\ tick = IdleTick

\* every game but the last has its first click; the last was just started
\* no function is under evaluation
NoCall == [fn |-> "none"]

Init == InitWith(Games \ {NumGames}) /\ PetStart(NewPetStats) /\ call = NoCall

\* every game has its first click
InitClick == InitWith(Games) /\ PetStart(NewPetStats) /\ call = NoCall

\* the button games idle, every pet with one of the rows of InitialStats
InitPet == InitWith(Games) /\ (\E stats \in InitialStats : PetStart(stats)) /\ call = NoCall

\* ------------------------------------------------- TimerButton.callback
Active(k) == cb[k].pc \notin {"idle", "done"}

\* the callback returns: its locals go out of scope, its outcome is kept
Finish(c, res) ==
    [c EXCEPT !.pc = "done", !.result = res, !.total_clicks = 0, !.total_players = 0]

\* lines 36-74: defer, "You attempt a click...", click_time = now, the game
\* session of the guild; suspends in get_button_message
callback_start(h, u, g) ==
    /\ UNCHANGED <<tick, call, pet_vars>>
    /\ cb[h].pc \in {"idle", "done"}
    /\ \A k \in Handlers : k < h => Active(k)
    /\ attempts < MaxAttempts
    /\ attempts' = attempts + 1
    /\ cb' = [k \in Handlers |->
                IF k = h
                THEN [IdleCallback EXCEPT
                        !.pc = "check", !.user_id = u, !.game_id = g,
                        !.click_time = now,
                        !.overlap = \E j \in Handlers \ {h} : Active(j) /\ cb[j].user_id = u,
                        !.after_end = ended_events[g] > 0]
                ELSE IF Active(k) /\ cb[k].user_id = u
                     THEN [cb[k] EXCEPT !.overlap = TRUE]
                     ELSE cb[k]]
    /\ UNCHANGED <<now, button_clicks, users, user_cache, game_cache, paused_games,
                   ended_events, finished_max, restarts>>

\* lines 79-97: the cached cooldown of the user is still running
cache_on_cooldown(cache, u, t) ==
    /\ u \in DOMAIN cache
    /\ cache[u].cooldown_expiration # NoTime
    /\ cache[u].cooldown_expiration - t > 0

\* the two queries without the cooldown decision: the per-user cache alone
\* would decide the cooldown
check_store_without_cooldown(c, tbl, t) ==
    LET q == select_click_aggregate(tbl, c.game_id, c.user_id, cooldown_duration, t)
        tv == remaining_time(timer_duration, c.click_time, q.latest_click_time_overall)
        c1 == [c EXCEPT !.current_timer_value = tv,
                        !.latest_click_time_user = q.latest_click_time_user,
                        !.total_clicks = q.total_clicks,
                        !.total_players = q.total_players]
    IN  IF q.latest_click_time_overall = NoTime THEN Finish(c, "error")
        ELSE IF tv <= 0 THEN Finish(c1, "ended")
        ELSE [c1 EXCEPT !.pc = "insert"]

\* lines 147-189: the outcome of the two queries for a callback c at time t
check_store(c, tbl, t) ==
    LET u == c.user_id
        g == c.game_id
        q == select_click_aggregate(tbl, g, u, cooldown_duration, t)
        tv == remaining_time(timer_duration, c.click_time, q.latest_click_time_overall)
        q2 == select_user_cooldown(tbl, u, cooldown_duration, t)
        c1 == [c EXCEPT !.current_timer_value = tv,
                        !.latest_click_time_user = q.latest_click_time_user,
                        !.total_clicks = q.total_clicks,
                        !.total_players = q.total_players]
    IN  IF q.latest_click_time_overall = NoTime THEN Finish(c, "error")
        ELSE IF tv <= 0 THEN Finish(c1, "ended")
        ELSE IF q.latest_click_time_user # NoTime /\ q2 # NoTime
             THEN Finish([c1 EXCEPT !.cooldown_remaining =
                                      (q2 + cooldown_duration) - c.click_time],
                         "cooldown")
        ELSE [c1 EXCEPT !.pc = "insert"]

\* lines 75-191: one block without suspension: the per-user cache, the users
\* upsert on a cache miss, the aggregate query, the end-of-game check and the
\* cooldown query; suspends in add_reaction when the click may proceed.
\* execute_query returns cursor.lastrowid for an INSERT and the callback
\* returns when that is falsy: the users upsert either raises ("users") or
\* writes the row and yields no row id ("users_rowid"), the table having no
\* generated key in the persisted layout.
callback_check(h) ==
    /\ UNCHANGED <<tick, call, pet_vars>>
    /\ cb[h].pc = "check"
    /\ \E fail \in {"none", "message", "users", "users_rowid", "query",
                     "cooldown_query"} :
        LET c == cb[h]
            u == c.user_id
            g == c.game_id
        IN  IF fail = "message"
            THEN /\ cb' = [cb EXCEPT ![h] = Finish(c, "error")]
                 /\ UNCHANGED <<users, user_cache>>
            ELSE IF cache_on_cooldown(user_cache, u, c.click_time)
            THEN LET e == user_cache[u]
                     expiration == e.latest_click_time + cooldown_duration
                 IN  /\ cb' = [cb EXCEPT ![h] =
                                 Finish([c EXCEPT !.cooldown_remaining =
                                           e.cooldown_expiration - c.click_time],
                                        "cooldown")]
                     /\ IF fail = "users"
                        THEN UNCHANGED <<users, user_cache>>
                        ELSE /\ users' = upsert_user(users, u, expiration, e.color_rank,
                                                     e.timer_value, now, e.game_id)
                             /\ user_cache' = Put(user_cache, u,
                                    user_cache_entry(expiration, e.color_rank,
                                                     e.timer_value, u, e.game_id, now))
            ELSE IF u \notin DOMAIN user_cache /\ fail \in {"users", "users_rowid"}
            THEN /\ cb' = [cb EXCEPT ![h] = Finish(c, "store_failure")]
                 /\ users' = IF fail = "users" THEN users
                             ELSE upsert_user_on_miss(users, u, c.click_time, g)
                 /\ UNCHANGED user_cache
            ELSE /\ users' = IF u \in DOMAIN user_cache THEN users
                             ELSE upsert_user_on_miss(users, u, c.click_time, g)
                 /\ UNCHANGED user_cache
                 /\ cb' = [cb EXCEPT ![h] =
                            IF fail = "query" THEN Finish(c, "store_failure")
                            ELSE LET r == check_store(c, button_clicks, now)
                                 IN  IF r.result = "cooldown" /\ fail = "cooldown_query"
                                     THEN Finish(c, "store_failure")
                                     ELSE r]
    /\ UNCHANGED <<now, button_clicks, game_cache, paused_games, ended_events,
                   finished_max, attempts, restarts>>

\* the insert with the cooldown examined once more against the store as it
\* is when the handler resumes: what a guaranteed exclusion would need
callback_insert_rechecked(h) ==
    /\ UNCHANGED <<tick, call, pet_vars>>
    /\ cb[h].pc = "insert"
    /\ \E ok \in BOOLEAN :
        LET c == cb[h]
            q == select_click_aggregate(button_clicks, c.game_id, c.user_id,
                                        cooldown_duration, now)
        IN
        IF q.latest_click_time_user # NoTime
        THEN /\ button_clicks' = button_clicks
             /\ cb' = [cb EXCEPT ![h] = Finish(c, "cooldown")]
        ELSE IF ok
        THEN /\ button_clicks' = insert_button_click(button_clicks, c.user_id, c.click_time,
                                                     c.current_timer_value, c.game_id)
             /\ cb' = [cb EXCEPT ![h] = [c EXCEPT !.pc = "announce",
                                                  !.rowid = Len(button_clicks) + 1]]
        ELSE /\ button_clicks' = button_clicks
             /\ cb' = [cb EXCEPT ![h] = Finish(c, "store_failure")]
    /\ UNCHANGED <<now, users, user_cache, game_cache, paused_games, ended_events, finished_max, attempts, restarts>>

\* lines 193-242: the insert; suspends in add_roles and the two sends
callback_insert(h) ==
    /\ UNCHANGED <<tick, call, pet_vars>>
    /\ cb[h].pc = "insert"
    /\ \E ok \in BOOLEAN :
        LET c == cb[h] IN
        IF ok
        THEN /\ button_clicks' = insert_button_click(button_clicks, c.user_id, c.click_time,
                                                     c.current_timer_value, c.game_id)
             /\ cb' = [cb EXCEPT ![h] = [c EXCEPT !.pc = "announce",
                                                  !.rowid = Len(button_clicks) + 1]]
        ELSE /\ button_clicks' = button_clicks
             /\ cb' = [cb EXCEPT ![h] = Finish(c, "store_failure")]
    /\ UNCHANGED <<now, users, user_cache, game_cache, paused_games, ended_events, finished_max, attempts, restarts>>

\* lines 200-248: role, reply and announcement, then the game cache is written
\* with the aggregates read before the insert; a failed send skips the write
callback_announce(h) ==
    /\ UNCHANGED <<tick, call, pet_vars>>
    /\ cb[h].pc = "announce"
    /\ \E ok \in BOOLEAN :
        LET c == cb[h] IN
        IF ok
        THEN /\ game_cache' = update_game_cache(game_cache, c.game_id, c.click_time,
                                  c.total_clicks, c.total_players, c.user_id,
                                  c.current_timer_value, now)
             /\ cb' = [cb EXCEPT ![h] = Finish(c, "clicked")]
             /\ finished_max' = [finished_max EXCEPT ![c.game_id] = Max2(@, c.click_time)]
        ELSE /\ game_cache' = game_cache
             /\ cb' = [cb EXCEPT ![h] = Finish(c, "error")]
             /\ finished_max' = finished_max
    /\ UNCHANGED <<now, button_clicks, users, user_cache, paused_games, ended_events, attempts, restarts>>

\* ------------------------------------------- MenuTimer.update_timer_task
\* the clearing with the window closed at its end: an entry exactly as old as
\* the window is cleared too
clear_if_stale_at_window(cache, g, t, last_update_time) ==
    IF t - last_update_time >= StaleWindow THEN clear_game_cache(cache, g) ELSE cache

\* lines 204-212: the entry is cleared when its last update is too old
clear_if_stale(cache, g, t, last_update_time) ==
    IF t - last_update_time > StaleWindow THEN clear_game_cache(cache, g) ELSE cache

\* what can go wrong in the body of the loop for one game: nothing, the
\* button message cannot be fetched (156-160), the query of a cache miss
\* raises (190), the edit of the running embed raises (285-298), the
\* end-of-game embed or its edit raises (227-234)
TickFailures == {"none", "message", "query", "edit", "end_game"}

\* the remaining time the body computes for game g at time t (lines 164-205)
tick_timer_value(cache, g, t) ==
    LET row == select_latest_click(button_clicks, users, g)
        latest_click_time_overall == IF g \in DOMAIN cache THEN cache[g].latest_click_time
                                     ELSE row.click_time
    IN  remaining_time(timer_duration, t, latest_click_time_overall)

\* lines 150-308: the body of the loop for one game; the block from the cache
\* read to the end-of-game decision has no suspension point.
timer_game_step(g, fail) ==
    IF is_paused(paused_games, g) \/ fail = "message"
    THEN UNCHANGED <<game_cache, paused_games, ended_events>>
    ELSE IF g \notin DOMAIN game_cache /\ fail = "query"
    THEN UNCHANGED <<game_cache, paused_games, ended_events>>
    ELSE IF g \notin DOMAIN game_cache /\ JoinedRows(button_clicks, users, g) = {}
    THEN /\ paused_games' = pause_game(paused_games, g)
         /\ UNCHANGED <<game_cache, ended_events>>
    ELSE LET hit == g \in DOMAIN game_cache
             row == select_latest_click(button_clicks, users, g)
             cache1 == IF hit THEN game_cache
                       ELSE update_game_cache(game_cache, g, row.click_time,
                                row.total_clicks, row.total_players, row.user_name,
                                row.timer_value, now)
             timer_value == tick_timer_value(game_cache, g, now)
             ended == timer_value <= 0
         IN  /\ game_cache' = clear_if_stale(cache1, g, now, cache1[g].last_update_time)
             /\ UNCHANGED paused_games
             /\ ended_events' =
                    IF ended /\ fail # "end_game"
                    THEN [ended_events EXCEPT ![g] = Min2(@ + 1, MaxEnded)]
                    ELSE ended_events

\* The loop visits every game session every 10 seconds; the bodies share no
\* loop state, so here the order of the visits is left open.
update_timer_task(g) ==
    /\ UNCHANGED <<tick, call, pet_vars>>
    /\ \E fail \in TickFailures \ {"edit"} : timer_game_step(g, fail)
    /\ UNCHANGED <<now, button_clicks, users, user_cache, cb, finished_max, attempts, restarts>>

\* ---------------------------- MenuTimer.update_timer_task, pass by pass
\* the failure is reached by the body of game g: the message fetch comes
\* first, the query only on a cache miss, the two edits after the decision
failure_strikes(g, fail) ==
    CASE fail = "none" -> FALSE
      [] fail = "message" -> TRUE
      [] fail = "query" -> g \notin DOMAIN game_cache
      [] OTHER ->
           /\ g \in DOMAIN game_cache \/ JoinedRows(button_clicks, users, g) # {}
           /\ (fail = "end_game") = (tick_timer_value(game_cache, g, now) <= 0)

\* a failure that escapes the body instead of being caught by the handlers of
\* lines 304-308 ends the pass
next_pos_uncaught(pos, failed) == IF failed \/ pos = NumGames THEN 0 ELSE pos + 1

\* line 149 with the handlers of lines 156-160, 232-235 and 299-308: whatever
\* happened in the body, the loop goes on with the next game session
next_pos(pos, failed) == IF pos = NumGames THEN 0 ELSE pos + 1

\* lines 147-149: a pass begins
tick_begin ==
    /\ UNCHANGED <<call, pet_vars>>
    /\ tick.pos = 0
    /\ tick' = [pos |-> 1, ran |-> TRUE, visited |-> {}, skipped |-> {}, failed |-> {},
                cleared |-> tick.cleared]
    /\ UNCHANGED <<now, button_clicks, users, user_cache, game_cache, paused_games, cb,
                   ended_events, finished_max, attempts, restarts>>

\* lines 149-308: the pass handles its next game session, in the order of
\* the dictionary
tick_game ==
    /\ UNCHANGED <<call, pet_vars>>
    /\ tick.pos \in Games
    /\ LET g == tick.pos
       IN  \E fail \in TickFailures :
             /\ timer_game_step(g, IF fail = "edit" THEN "none" ELSE fail)
             /\ IF is_paused(paused_games, g)
                THEN tick' = [tick EXCEPT !.pos = next_pos(g, FALSE),
                                          !.skipped = @ \cup {g}]
                ELSE tick' = [tick EXCEPT
                                 !.pos = next_pos(g, failure_strikes(g, fail)),
                                 !.visited = @ \cup {g},
                                 !.failed = IF failure_strikes(g, fail)
                                            THEN @ \cup {g} ELSE @,
                                 !.cleared = IF g \in DOMAIN game_cache
                                                /\ g \notin DOMAIN game_cache'
                                             THEN @ \cup {g} ELSE @]
    /\ UNCHANGED <<now, button_clicks, users, user_cache, cb, finished_max, attempts, restarts>>

\* ------------------------------------------------------------- environment
\* time passes
Advance ==
    /\ UNCHANGED <<tick, call, pet_vars>>
    /\ now < MaxTime
    /\ now' = now + 1
    /\ UNCHANGED <<button_clicks, users, user_cache, game_cache, paused_games, cb,
                   ended_events, finished_max, attempts, restarts>>

\* the process is restarted: every module global is re-created, the running
\* callbacks and the timer loop are gone, the tables stay
Restart ==
    /\ tick' = IdleTick
    /\ UNCHANGED <<call, pet_vars>>
    /\ restarts < MaxRestarts
    /\ restarts' = restarts + 1
    /\ user_cache' = EmptyDict
    /\ game_cache' = EmptyDict
    /\ paused_games' = NoPausedGames
    /\ cb' = [h \in Handlers |-> IdleCallback]
    /\ UNCHANGED <<now, button_clicks, users, ended_events, finished_max, attempts>>

Callback ==
    \/ \E h \in Handlers, u \in Users, g \in Games : callback_start(h, u, g)
    \/ \E h \in Handlers : callback_check(h)
    \/ \E h \in Handlers : callback_insert(h)
    \/ \E h \in Handlers : callback_announce(h)

\* click handlers and the timer loop
Next ==
    \/ Callback
    \/ \E g \in Games : update_timer_task(g)
    \/ Advance

Spec == Init /\ [][Next]_vars

\* click handlers over games that are all in play, and process restarts
NextClick ==
    \/ Callback
    \/ Advance
    \/ Restart

SpecClick == InitClick /\ [][NextClick]_vars

\* the timer loop pass by pass, over games in play and a game just started
NextTick ==
    \/ tick_begin
    \/ tick_game
    \/ Advance

SpecTick == Init /\ [][NextTick]_vars

TypeOK ==
    /\ now \in 0..MaxTime
    /\ \A h \in Handlers : cb[h].pc \in {"idle", "check", "insert", "announce", "done"}
    /\ DOMAIN game_cache \subseteq Games
    /\ DOMAIN user_cache \subseteq Users
    /\ DOMAIN users \subseteq Users

\* ================================================ game/interaction.py
\* --------------------------------------------------- INTERACTION_EFFECTS
InteractionTypes ==
    {"FEED", "CLEAN", "SLEEP", "WAKE", "PLAY", "PET", "EXERCISE", "TREAT", "MEDICINE"}

\* a key that is not in a conditions dictionary
Absent == NoTime
NoConditions ==
    [not_sleeping |-> FALSE, is_sleeping |-> FALSE, max_hunger |-> Absent,
     min_energy |-> Absent, max_energy |-> Absent, max_treats_per_day |-> Absent,
     is_sick |-> FALSE]

\* stat changes in points, cooldown in half hours
InteractionEffect(ha, hu, en, hy, cooldown, conditions) ==
    [happiness |-> P(ha), hunger |-> P(hu), energy |-> P(en), hygiene |-> P(hy),
     cooldown |-> cooldown, conditions |-> conditions]

INTERACTION_EFFECTS ==
    [T \in InteractionTypes |->
       CASE T = "FEED" -> InteractionEffect(5, 30, 0, -5, 2,
                [NoConditions EXCEPT !.max_hunger = P(90), !.not_sleeping = TRUE])
         [] T = "CLEAN" -> InteractionEffect(5, 0, -5, 40, 4,
                [NoConditions EXCEPT !.not_sleeping = TRUE])
         [] T = "SLEEP" -> InteractionEffect(0, -5, 20, 0, 8,
                [NoConditions EXCEPT !.not_sleeping = TRUE, !.max_energy = P(80)])
         [] T = "WAKE" -> InteractionEffect(0, 0, 0, 0, 1,
                [NoConditions EXCEPT !.is_sleeping = TRUE, !.min_energy = P(50)])
         [] T = "PLAY" -> InteractionEffect(15, -10, -15, -10, 2,
                [NoConditions EXCEPT !.not_sleeping = TRUE, !.min_energy = P(30)])
         [] T = "PET" -> InteractionEffect(10, 0, 0, 0, 1, NoConditions)
         [] T = "EXERCISE" -> InteractionEffect(10, -15, -20, -15, 4,
                [NoConditions EXCEPT !.not_sleeping = TRUE, !.min_energy = P(40)])
         [] T = "TREAT" -> InteractionEffect(20, 10, 5, -5, 6,
                [NoConditions EXCEPT !.max_treats_per_day = 3, !.not_sleeping = TRUE])
         [] T = "MEDICINE" -> InteractionEffect(-5, 0, -10, 20, 12,
                [NoConditions EXCEPT !.is_sick = TRUE])]

\* 86400 seconds and the default cache_timeout of 3600 seconds, in hours
DayHours == 24
cache_timeout == 1

\* -------------------------------------------------------- PetStateManager
\* _calculate_state
calculate_state(stats) ==
    IF stats.energy < P(20) THEN "SLEEPING"
    ELSE IF stats.hygiene < P(30) \/ stats.hunger < P(20) THEN "SICK"
    ELSE IF stats.happiness < P(25) THEN "UNHAPPY"
    ELSE "NORMAL"

\* _calculate_decay for a whole number of elapsed hours, in half points
calculate_decay(stats, state, elapsed_hours) ==
    LET awake == IF state = "SLEEPING" THEN P(10) * elapsed_hours
                 ELSE -P(5) * elapsed_hours
        happiness == IF state = "SICK" THEN (-P(1) * elapsed_hours * 3) \div 2
                     ELSE -P(1) * elapsed_hours
        energy == IF state = "SICK" THEN (awake * 6) \div 5 ELSE awake
        unmet == \E n \in {"hunger", "energy", "hygiene"} : stats[n] < P(20)
    IN  [hunger |-> -P(2) * elapsed_hours,
         hygiene |-> -P(3) * elapsed_hours,
         happiness |-> IF unmet THEN happiness - P(2) * elapsed_hours ELSE happiness,
         energy |-> energy]

\* a variant of _apply_stat_changes that stores the sum as it is
apply_stat_changes_unbounded(stats, changes) ==
    [n \in StatNames |-> stats[n] + changes[n]]

\* _apply_stat_changes: max(0, min(100, stat + change)) for every stat
apply_stat_changes(stats, changes) ==
    [n \in StatNames |-> Max2(0, Min2(P(100), stats[n] + changes[n]))]

\* _check_cooldown at time t
check_cooldown(interaction_history, T, t) ==
    \/ interaction_history[T] = NoTime
    \/ 2 * (t - interaction_history[T]) >= INTERACTION_EFFECTS[T].cooldown

\* a variant of _validate_conditions without the test of max_energy
validate_conditions_no_max_energy(m, effect) ==
    LET conditions == effect.conditions
    IN  /\ ~(conditions.not_sleeping /\ m.state = "SLEEPING")
        /\ ~(conditions.is_sleeping /\ m.state # "SLEEPING")
        /\ ~(conditions.max_hunger # Absent /\ m.stats.hunger >= conditions.max_hunger)
        /\ ~(conditions.min_energy # Absent /\ m.stats.energy < conditions.min_energy)
        /\ ~(conditions.max_treats_per_day # Absent
               /\ m.treat_count >= conditions.max_treats_per_day)
        /\ ~(conditions.is_sick /\ m.state # "SICK")

\* _validate_conditions on the manager m
validate_conditions(m, effect) ==
    LET conditions == effect.conditions
    IN  /\ ~(conditions.not_sleeping /\ m.state = "SLEEPING")
        /\ ~(conditions.is_sleeping /\ m.state # "SLEEPING")
        /\ ~(conditions.max_hunger # Absent /\ m.stats.hunger >= conditions.max_hunger)
        /\ ~(conditions.min_energy # Absent /\ m.stats.energy < conditions.min_energy)
        /\ ~(conditions.max_energy # Absent /\ m.stats.energy >= conditions.max_energy)
        /\ ~(conditions.max_treats_per_day # Absent
               /\ m.treat_count >= conditions.max_treats_per_day)
        /\ ~(conditions.is_sick /\ m.state # "SICK")

\* no call of the manager is between its changes and the end of its persist
NoSnapshot ==
    [stats |-> <<>>, state |-> "none", last_update |-> NoTime, treat_count |-> 0,
     interaction_history |-> <<>>]

\* what update() or process_interaction() found when it took the lock
Snapshot(m) ==
    [stats |-> m.stats, state |-> m.state, last_update |-> m.last_update,
     treat_count |-> m.treat_count, interaction_history |-> m.interaction_history]

\* PetStateManager.__init__ at time t
\* before is a history field: what the call now awaiting its persist found
\* decayed_at is a history field: the time of the last update() that applied
\* its decay with no interaction since, NoTime when there is none
PetStateManager(pet_id, initial_stats, t) ==
    [pet_id |-> pet_id, stats |-> initial_stats.stats,
     state |-> calculate_state(initial_stats.stats),
     last_update |-> initial_stats.last_update,
     interaction_history |-> [T \in InteractionTypes |-> NoTime],
     treat_count |-> 0, last_treat_reset |-> t, lock |-> 0,
     decayed_at |-> NoTime, before |-> NoSnapshot]

\* update, from taking the lock to the await of _persist_stats, at time t
update_apply(m, t) ==
    LET reset == (t - m.last_treat_reset) >= DayHours
        decay == calculate_decay(m.stats, m.state, t - m.last_update)
        stats == apply_stat_changes(m.stats, decay)
    IN  [m EXCEPT !.treat_count = IF reset THEN 0 ELSE @,
                  !.last_treat_reset = IF reset THEN t ELSE @,
                  !.stats = stats,
                  !.state = calculate_state(stats),
                  !.decayed_at = t,
                  !.before = Snapshot(m)]

\* process_interaction, from the two checks passed to the await of
\* _persist_stats, at time t
interaction_apply(m, T, t) ==
    LET effect == INTERACTION_EFFECTS[T]
        stats == apply_stat_changes(m.stats, effect)
    IN  [m EXCEPT !.treat_count = IF T = "TREAT" THEN @ + 1 ELSE @,
                  !.stats = stats,
                  !.state = calculate_state(stats),
                  !.interaction_history[T] = t,
                  !.decayed_at = NoTime,
                  !.before = Snapshot(m)]

\* ------------------------------------------------------ database/database.py
\* a float stored into a TINYINT column: rounded to a whole point
tinyint(x) == 2 * ((x + 1) \div 2)

\* a variant of update_pet_stats whose write is lost although it returns True
update_pet_stats_lost(tbl, pet_id, stats, t) == tbl

\* update_pet_stats at time t
update_pet_stats(tbl, pet_id, stats, t) ==
    [tbl EXCEPT ![pet_id] = [stats |-> [n \in StatNames |-> tinyint(stats[n])],
                             last_update |-> t]]

\* get_pet_stats: `value or 100`, clamped
get_pet_stats(tbl, pet_id) ==
    [stats |-> [n \in StatNames |->
                   LET value == tbl[pet_id].stats[n]
                   IN  Max2(0, Min2(P(100), IF value = 0 THEN P(100) ELSE value))],
     last_update |-> tbl[pet_id].last_update]

\* ------------------------------------------------------------- pet tasks
\* A pet task is one running coroutine: a pass of a view's update loop, the
\* callback of a view's interaction button, or a call of StateManager
\* (get_pet_state, cleanup_cache, remove_pet).  Its pc names the await it is
\* suspended at.
PetActive(k) == pt[k].pc \notin {"idle", "done"}

\* a task that has ended keeps only what it returned
Finished(result) == [IdleTask EXCEPT !.pc = "done", !.result = result]

\* a task slot is free and the tasks before it are running
free_slot(k) ==
    /\ ~PetActive(k)
    /\ \A j \in PetTasks : j < k => PetActive(j)

may_start(k) == free_slot(k) /\ pet_ops < MaxPetOps

\* a variant of the lock test that lets every caller in
lock_ignored(ms, i) == TRUE

\* asyncio.Lock of a PetStateManager: `async with self._lock` is entered
\* when nobody holds the lock
lock_available(ms, i) == ms[i].lock = 0

\* cleanup_cache lines 411-415 and remove_pet lines 484-486: the `del` is
\* reached only when `await update()` did not raise
evict_if_updated(ps, p, ok) == IF ok THEN Del(ps, p) ELSE ps

\* PetView.update_loop -> update_display -> self.pet_state.update()
view_update_start(k, i) ==
    /\ UNCHANGED button_vars
    /\ may_start(k)
    /\ i \in views
    /\ pt' = [pt EXCEPT ![k] = [IdleTask EXCEPT !.pc = "update", !.op = "view_update",
                                               !.inst = i, !.pet = managers[i].pet_id]]
    /\ pet_ops' = pet_ops + 1
    /\ UNCHANGED <<clock, pet_stats, managers, pet_states, last_access, sm_lock, views, accepted>>

\* InteractionButton.callback -> self.view.pet_state.process_interaction(T).
\* An interaction that changes anything starts the cooldown of T, so the
\* clock alone bounds the interactions where few types are offered (cost 0);
\* where every type is offered they count as operations (cost 1).
view_interact_start(k, i, T, cost) ==
    /\ UNCHANGED button_vars
    /\ free_slot(k)
    /\ i \in views
    /\ pet_ops + cost <= MaxPetOps
    /\ pt' = [pt EXCEPT ![k] = [IdleTask EXCEPT !.pc = "interact", !.op = "view_interact",
                                               !.inst = i, !.pet = managers[i].pet_id,
                                               !.itype = T]]
    /\ pet_ops' = pet_ops + cost
    /\ UNCHANGED <<clock, pet_stats, managers, pet_states, last_access, sm_lock, views, accepted>>

\* get_pet_state -> load_pet, up to its first await: on a hit the await of
\* update(), on a miss the await of get_pet_stats
get_pet_state_start(k, p) ==
    /\ UNCHANGED button_vars
    /\ may_start(k)
    /\ sm_lock = 0
    /\ p \in DOMAIN pet_states \/ Len(managers) < MaxManagers
    /\ sm_lock' = k
    /\ IF p \in DOMAIN pet_states
       THEN /\ last_access' = Put(last_access, p, clock)
            /\ pt' = [pt EXCEPT ![k] = [IdleTask EXCEPT !.pc = "update", !.op = "get_pet_state",
                                                       !.inst = pet_states[p], !.pet = p]]
       ELSE /\ UNCHANGED last_access
            /\ pt' = [pt EXCEPT ![k] = [IdleTask EXCEPT !.pc = "query", !.op = "get_pet_state",
                                                       !.pet = p]]
    /\ pet_ops' = pet_ops + 1
    /\ UNCHANGED <<clock, pet_stats, managers, pet_states, views, accepted>>

\* load_pet after get_pet_stats returned: None, or the stats a new
\* PetStateManager is built from; the caller opens a PetView on it
load_pet_fetch(k) ==
    /\ UNCHANGED button_vars
    /\ pt[k].pc = "query"
    /\ \E ok \in BOOLEAN :
        LET p == pt[k].pet
            i == Len(managers) + 1
        IN  IF ok
            THEN /\ managers' = Append(managers,
                                       PetStateManager(p, get_pet_stats(pet_stats, p), clock))
                 /\ pet_states' = Put(pet_states, p, i)
                 /\ last_access' = Put(last_access, p, clock)
                 /\ views' = views \cup {i}
                 /\ pt' = [pt EXCEPT ![k].pc = "exit", ![k].inst = i]
            ELSE /\ pt' = [pt EXCEPT ![k] = Finished("not_loaded")]
                 /\ UNCHANGED <<managers, pet_states, last_access, views>>
    /\ sm_lock' = 0
    /\ UNCHANGED <<clock, pet_stats, accepted, pet_ops>>

\* get_pet_state, the finally clause after the caller's block
get_pet_state_exit(k) ==
    /\ UNCHANGED button_vars
    /\ pt[k].pc = "exit"
    /\ last_access' = Put(last_access, pt[k].pet, clock)
    /\ pt' = [pt EXCEPT ![k] = Finished("loaded")]
    /\ UNCHANGED <<clock, pet_stats, managers, pet_states, sm_lock, views, accepted, pet_ops>>

\* the pets cleanup_cache finds stale at time t
stale_pets(la, t) == {p \in DOMAIN la : (t - la[p]) > cache_timeout}

MinOf(S) == CHOOSE x \in S : \A y \in S : x <= y

\* cleanup_cache up to its first await.  A stale pet that is not in
\* _pet_states raises KeyError at its `del`, which the loop logs: only the
\* stale pets that are loaded change anything.
cleanup_cache_start(k) ==
    /\ UNCHANGED button_vars
    /\ may_start(k)
    /\ sm_lock = 0
    /\ LET todo == stale_pets(last_access, clock) \cap DOMAIN pet_states
       IN  /\ todo # {}
           /\ pt' = [pt EXCEPT ![k] = [IdleTask EXCEPT !.pc = "update", !.op = "cleanup_cache",
                                                      !.pet = MinOf(todo),
                                                      !.inst = pet_states[MinOf(todo)],
                                                      !.todo = todo \ {MinOf(todo)}]]
    /\ sm_lock' = k
    /\ pet_ops' = pet_ops + 1
    /\ UNCHANGED <<clock, pet_stats, managers, pet_states, last_access, views, accepted>>

\* remove_pet up to its await of update(); a pet that is not loaded returns
\* False at once
remove_pet_start(k, p) ==
    /\ UNCHANGED button_vars
    /\ may_start(k)
    /\ sm_lock = 0
    /\ p \in DOMAIN pet_states
    /\ pt' = [pt EXCEPT ![k] = [IdleTask EXCEPT !.pc = "update", !.op = "remove_pet",
                                               !.pet = p, !.inst = pet_states[p]]]
    /\ sm_lock' = k
    /\ pet_ops' = pet_ops + 1
    /\ UNCHANGED <<clock, pet_stats, managers, pet_states, last_access, views, accepted>>

\* what the caller of update() does when update() has returned (ok) or
\* raised: the view tasks end; load_pet returns the manager or None;
\* cleanup_cache and remove_pet delete the pet after a successful update and
\* cleanup_cache goes on with its next stale pet; force_update returns the
\* outcome; update_all logs a failure and has the next pet updated (the
\* updates it gathers are taken one after the other here)
after_update(k, ok) ==
    LET task == pt[k]
        p == task.pet
    IN  CASE task.op \in {"view_update", "view_interact"} ->
               /\ pt' = [pt EXCEPT ![k] = Finished(IF task.op = "view_interact" THEN "accepted"
                                                 ELSE IF ok THEN "updated" ELSE "error")]
               /\ UNCHANGED <<pet_states, last_access, sm_lock, views>>
          [] task.op = "get_pet_state" ->
               /\ sm_lock' = 0
               /\ IF ok
                  THEN /\ views' = views \cup {task.inst}
                       /\ pt' = [pt EXCEPT ![k].pc = "exit"]
                  ELSE /\ pt' = [pt EXCEPT ![k] = Finished("not_loaded")]
                       /\ UNCHANGED views
               /\ UNCHANGED <<pet_states, last_access>>
          [] task.op = "remove_pet" ->
               /\ sm_lock' = 0
               /\ pet_states' = evict_if_updated(pet_states, p, ok)
               /\ last_access' = evict_if_updated(last_access, p, ok)
               /\ pt' = [pt EXCEPT ![k] = Finished(IF ok THEN "removed" ELSE "error")]
               /\ UNCHANGED views
          [] task.op = "cleanup_cache" ->
               /\ pet_states' = evict_if_updated(pet_states, p, ok)
               /\ last_access' = evict_if_updated(last_access, p, ok)
               /\ IF task.todo = {}
                  THEN /\ sm_lock' = 0
                       /\ pt' = [pt EXCEPT ![k] = Finished(IF ok THEN "evicted" ELSE "kept")]
                  ELSE /\ UNCHANGED sm_lock
                       /\ pt' = [pt EXCEPT ![k].pet = MinOf(task.todo),
                                           ![k].inst = pet_states[MinOf(task.todo)],
                                           ![k].todo = task.todo \ {MinOf(task.todo)},
                                           ![k].pc = "update",
                                           ![k].result = IF ok THEN "evicted" ELSE "kept"]
               /\ UNCHANGED views
          [] task.op = "force_update" ->
               /\ sm_lock' = 0
               /\ pt' = [pt EXCEPT ![k] = Finished(IF ok THEN "updated" ELSE "error")]
               /\ UNCHANGED <<pet_states, last_access, views>>
          [] task.op = "update_all" ->
               /\ IF task.todo = {}
                  THEN /\ sm_lock' = 0
                       /\ pt' = [pt EXCEPT ![k] = Finished("updated")]
                  ELSE /\ UNCHANGED sm_lock
                       /\ pt' = [pt EXCEPT ![k].pet = MinOf(task.todo),
                                           ![k].inst = pet_states[MinOf(task.todo)],
                                           ![k].todo = task.todo \ {MinOf(task.todo)},
                                           ![k].pc = "update"]
               /\ UNCHANGED <<pet_states, last_access, views>>

\* PetStateManager.update lines 116-133: the lock is taken, the elapsed time
\* is computed (TypeError when last_update came from the store as a naive
\* datetime), decay and state are applied and _persist_stats is awaited
manager_update_begin(k) ==
    /\ UNCHANGED button_vars
    /\ pt[k].pc = "update"
    /\ lock_available(managers, pt[k].inst)
    /\ \E fail \in {"none", "elapsed"} :
         IF fail = "elapsed"
         THEN /\ after_update(k, FALSE)
              /\ UNCHANGED managers
         ELSE /\ managers' = [managers EXCEPT ![pt[k].inst] =
                                 [update_apply(@, clock) EXCEPT !.lock = k]]
              /\ pt' = [pt EXCEPT ![k].pc = "persist_update", ![k].t = clock]
              /\ UNCHANGED <<pet_states, last_access, sm_lock, views>>
    /\ UNCHANGED <<clock, pet_stats, accepted, pet_ops>>

\* PetStateManager.update lines 133-138: _persist_stats returned or raised
manager_update_end(k) ==
    /\ UNCHANGED button_vars
    /\ pt[k].pc = "persist_update"
    /\ \E ok \in BOOLEAN :
         LET i == pt[k].inst
         IN  /\ pet_stats' = IF ok THEN update_pet_stats(pet_stats, managers[i].pet_id,
                                                         managers[i].stats, clock)
                             ELSE pet_stats
             /\ managers' = [managers EXCEPT ![i].lock = 0,
                                             ![i].last_update = IF ok THEN pt[k].t ELSE @,
                                             ![i].before = NoSnapshot]
             /\ after_update(k, ok)
    /\ UNCHANGED <<clock, accepted, pet_ops>>

\* process_interaction lines 229-259: the lock is taken, the cooldown and
\* the conditions are checked, the effect is applied and recorded, and
\* _persist_stats is awaited
manager_interact_begin(k) ==
    /\ UNCHANGED button_vars
    /\ pt[k].pc = "interact"
    /\ lock_available(managers, pt[k].inst)
    /\ LET i == pt[k].inst
           T == pt[k].itype
           m == managers[i]
       IN  IF ~check_cooldown(m.interaction_history, T, clock)
           THEN /\ pt' = [pt EXCEPT ![k] = Finished("cooldown")]
                /\ UNCHANGED managers
           ELSE IF ~validate_conditions(m, INTERACTION_EFFECTS[T])
           THEN /\ pt' = [pt EXCEPT ![k] = Finished("conditions")]
                /\ UNCHANGED managers
           ELSE /\ managers' = [managers EXCEPT ![i] =
                                   [interaction_apply(m, T, clock) EXCEPT !.lock = k]]
                /\ pt' = [pt EXCEPT ![k].pc = "persist_interact", ![k].t = clock]
    /\ UNCHANGED <<clock, pet_stats, pet_states, last_access, sm_lock, views, accepted, pet_ops>>

\* process_interaction lines 259-265: _persist_stats returned (success, the
\* callback goes on to update_display) or raised (failure)
manager_interact_end(k) ==
    /\ UNCHANGED button_vars
    /\ pt[k].pc = "persist_interact"
    /\ \E ok \in BOOLEAN :
         LET i == pt[k].inst
         IN  /\ pet_stats' = IF ok THEN update_pet_stats(pet_stats, managers[i].pet_id,
                                                         managers[i].stats, clock)
                             ELSE pet_stats
             /\ managers' = [managers EXCEPT ![i].lock = 0, ![i].before = NoSnapshot]
             /\ accepted' = IF ok THEN Append(accepted, [pet |-> managers[i].pet_id,
                                                         itype |-> pt[k].itype,
                                                         time |-> pt[k].t])
                            ELSE accepted
             /\ pt' = IF ok THEN [pt EXCEPT ![k].pc = "update", ![k].result = "accepted"]
                      ELSE [pt EXCEPT ![k] = Finished("error")]
    /\ UNCHANGED <<clock, pet_states, last_access, sm_lock, views, pet_ops>>

\* time passes
PetAdvance ==
    /\ UNCHANGED button_vars
    /\ clock < MaxClock
    /\ clock' = clock + 1
    /\ UNCHANGED <<pet_stats, managers, pet_states, last_access, sm_lock, views, pt,
                   accepted, pet_ops>>

\* the interaction types offered to concurrent tasks
LockInteractions == InteractionTypes

\* the interaction types the buttons offer where interactions are not counted
OfferedInteractions == {"FEED", "TREAT"}

\* the task slot used where the tasks run one after the other
SequentialTasks == {k \in PetTasks : \A j \in PetTasks : k <= j}

\* views, the StateManager and its cleanup, one task at a time
NextPet ==
    \/ \E k \in SequentialTasks, i \in views : view_update_start(k, i)
    \/ \E k \in SequentialTasks, i \in views, T \in OfferedInteractions : view_interact_start(k, i, T, 0)
    \/ \E k \in SequentialTasks, p \in Pets : get_pet_state_start(k, p)
    \/ \E k \in SequentialTasks : load_pet_fetch(k)
    \/ \E k \in SequentialTasks : get_pet_state_exit(k)
    \/ \E k \in SequentialTasks : cleanup_cache_start(k)
    \/ \E k \in SequentialTasks, p \in Pets : remove_pet_start(k, p)
    \/ \E k \in SequentialTasks : manager_update_begin(k)
    \/ \E k \in SequentialTasks : manager_update_end(k)
    \/ \E k \in SequentialTasks : manager_interact_begin(k)
    \/ \E k \in SequentialTasks : manager_interact_end(k)
    \/ PetAdvance

SpecPet == InitClick /\ [][NextPet]_vars

\* one pet behind its views, one task at a time: loads, view updates and
\* every kind of interaction, from each of the rows of InitialStats
NextManager ==
    \/ \E k \in SequentialTasks, i \in views : view_update_start(k, i)
    \/ \E k \in SequentialTasks, i \in views, T \in InteractionTypes : view_interact_start(k, i, T, 1)
    \/ \E k \in SequentialTasks, p \in Pets : get_pet_state_start(k, p)
    \/ \E k \in SequentialTasks : load_pet_fetch(k)
    \/ \E k \in SequentialTasks : get_pet_state_exit(k)
    \/ \E k \in SequentialTasks : manager_update_begin(k)
    \/ \E k \in SequentialTasks : manager_update_end(k)
    \/ \E k \in SequentialTasks : manager_interact_begin(k)
    \/ \E k \in SequentialTasks : manager_interact_end(k)
    \/ PetAdvance

SpecManager == InitPet /\ [][NextManager]_vars

\* concurrent tasks on the manager of a new pet: loads, view updates and
\* interactions suspended in their awaits while others run
NextLock ==
    \/ \E k \in PetTasks, i \in views : view_update_start(k, i)
    \/ \E k \in PetTasks, i \in views, T \in LockInteractions : view_interact_start(k, i, T, 1)
    \/ \E k \in PetTasks, p \in Pets : get_pet_state_start(k, p)
    \/ \E k \in PetTasks : load_pet_fetch(k)
    \/ \E k \in PetTasks : get_pet_state_exit(k)
    \/ \E k \in PetTasks : manager_update_begin(k)
    \/ \E k \in PetTasks : manager_update_end(k)
    \/ \E k \in PetTasks : manager_interact_begin(k)
    \/ \E k \in PetTasks : manager_interact_end(k)
    \/ PetAdvance

SpecLock == InitClick /\ [][NextLock]_vars

PetTypeOK ==
    /\ clock \in 0..MaxClock
    /\ Len(managers) <= MaxManagers
    /\ \A p \in DOMAIN pet_states : pet_states[p] \in DOMAIN managers
    /\ sm_lock \in {0} \cup PetTasks
    /\ views \subseteq DOMAIN managers

\* ================================================================= claims
Done(h) == cb[h].pc = "done"
Rejected == {"cooldown", "ended", "store_failure"}

\* the ClickRecords of user u in game g
UserGameRows(tbl, u, g) == {i \in DOMAIN tbl : tbl[i].user_id = u /\ tbl[i].game_id = g}

\* the store holds a ClickRecord of u in g no older than the cooldown at time t
HasClickInCooldown(tbl, u, g, t) ==
    \E i \in UserGameRows(tbl, u, g) : t - tbl[i].click_time <= cooldown_duration

\* C1: for attempts of one user that do not overlap, in a game that has not
\* ended, an attempt at time t is accepted iff the store holds no ClickRecord
\* of that user in that game within the cooldown before t, and a rejected
\* attempt reports remaining = (the user's last click in that game) +
\* cooldown - t.  Stated for the attempts whose store check runs at the clock
\* value of the click, so that t is the same for the click and for the store.
C1_CooldownDecision ==
    [][\A h \in Handlers :
          LET c == cb[h]
              d == cb'[h]
              lastClick == sql_max_click_time(button_clicks,
                               UserGameRows(button_clicks, c.user_id, c.game_id))
          IN  ( /\ c.pc = "check"
                /\ ~c.overlap
                /\ c.click_time = now
                /\ \/ d.pc = "insert"
                   \/ d.pc = "done" /\ d.result = "cooldown" )
              => /\ (d.pc = "insert") <=>
                        ~HasClickInCooldown(button_clicks, c.user_id, c.game_id,
                                            c.click_time)
                 /\ d.result = "cooldown" =>
                        d.cooldown_remaining =
                            (lastClick + cooldown_duration) - c.click_time]_vars

\* C2: after a restart (both caches empty), a click attempt of a user with a
\* ClickRecord of that game inside the cooldown window ends without being
\* accepted and inserts no ClickRecord.
C2_RestartSafeCooldown ==
    [][\A h \in Handlers :
          ( /\ restarts > 0
            /\ restarts' = restarts
            /\ cb[h].pc = "check"
            /\ cb'[h].pc # "check"
            /\ HasClickInCooldown(button_clicks, cb[h].user_id, cb[h].game_id, now) )
          => /\ cb'[h].pc = "done"
             /\ cb'[h].result # "clicked"
             /\ cb'[h].rowid = 0
             /\ button_clicks' = button_clicks]_vars

C2_Witness ==
    \E h \in Handlers :
        /\ restarts > 0
        /\ Done(h)
        /\ cb[h].result = "cooldown"
        /\ cb[h].rowid = 0
        /\ user_cache = EmptyDict
        /\ game_cache = EmptyDict

\* C3: a click attempt whose computed remaining time is <= 0 inserts nothing,
\* and no click attempt started after a tick reported the game as ended is
\* accepted.
C3_EndedIsTerminal ==
    \A h \in Handlers :
        /\ cb[h].result = "ended" => cb[h].rowid = 0
        /\ cb[h].after_end => cb[h].rowid = 0

\* C4: the end of a game is notified exactly once: no tick sends a second
\* end-game message for the same game.
C4_EndedOnce == \A g \in Games : ended_events[g] <= 1

\* C5: once the handler of an accepted click at time t has finished, every
\* tick computes the remaining time from a latest click time >= t: a cached
\* entry (which the tick reads, and which a tick rebuilds on a miss) never
\* holds an older click time.
C5_CacheNotBehindClicks ==
    \A g \in DOMAIN game_cache : game_cache[g].latest_click_time >= finished_max[g]

\* C6: after an accepted click of user u at time t the per-user cache holds an
\* entry for u with cooldownExpiration = t + cooldown and latestClickTime = t.
C6_UserCacheWrittenThrough ==
    \A h \in Handlers :
        (Done(h) /\ cb[h].result = "clicked") =>
            /\ cb[h].user_id \in DOMAIN user_cache
            /\ user_cache[cb[h].user_id].cooldown_expiration =
                  cb[h].click_time + cooldown_duration
            /\ user_cache[cb[h].user_id].latest_click_time = cb[h].click_time

\* C7: on a cache miss the tick rebuilds the entry with the maximum
\* click_time, the number of ClickRecords and the number of distinct users of
\* the game.
C7_RebuildMatchesStore ==
    [][\A g \in Games :
          (g \notin DOMAIN game_cache /\ g \in DOMAIN game_cache' /\ cb' = cb) =>
              LET rows == {i \in DOMAIN button_clicks : button_clicks[i].game_id = g} IN
              /\ \A i \in rows :
                    button_clicks[i].click_time <= game_cache'[g].latest_click_time
              /\ \E i \in rows :
                    button_clicks[i].click_time = game_cache'[g].latest_click_time
              /\ game_cache'[g].total_clicks = Cardinality(rows)
              /\ game_cache'[g].total_players =
                    Cardinality({button_clicks[i].user_id : i \in rows})]_vars

\* C8: every ClickRecord has a timer_value within [0, timerDuration].
C8_TimerValueInRange ==
    \A i \in DOMAIN button_clicks :
        /\ button_clicks[i].timer_value >= 0
        /\ button_clicks[i].timer_value <= timer_duration

\* C9: button_clicks is append-only: every step leaves the existing records
\* as they are; a step that changes the table appends exactly one record, the
\* one of the click handler that takes it; an attempt that ends rejected has
\* inserted nothing, and one that ends accepted has inserted exactly one.
C9_AppendOnly ==
    [][ /\ \/ button_clicks' = button_clicks
           \/ \E h \in Handlers :
                /\ cb[h].pc = "insert"
                /\ cb'[h].rowid = Len(button_clicks) + 1
                /\ button_clicks' =
                      button_clicks \o
                        <<[user_id |-> cb[h].user_id, game_id |-> cb[h].game_id,
                           click_time |-> cb[h].click_time,
                           timer_value |-> cb[h].current_timer_value]>>
        /\ \A h \in Handlers :
             (cb[h].pc # "done" /\ cb'[h].pc = "done") =>
                /\ button_clicks' = button_clicks
                /\ cb'[h].result \in Rejected => cb'[h].rowid = 0
                /\ cb'[h].result = "clicked" =>
                      /\ cb'[h].rowid \in DOMAIN button_clicks
                      /\ button_clicks[cb'[h].rowid].user_id = cb'[h].user_id
                      /\ button_clicks[cb'[h].rowid].click_time = cb'[h].click_time
      ]_vars

C9_Witness ==
    /\ \E h \in Handlers : Done(h) /\ cb[h].result = "clicked" /\ cb[h].rowid = Len(button_clicks)
    /\ \E h \in Handlers : Done(h) /\ cb[h].result \in Rejected

\* C12: a tick that finds no rows for a game pauses that game: from then on
\* the loop skips it (is_paused), and a game that is skipped stays skipped
\* when the list of paused games changes afterwards.
NoRows(g) == g \notin DOMAIN game_cache /\ JoinedRows(button_clicks, users, g) = {}
C12_PausedGameIsSkipped ==
    [][\A g \in Games :
          /\ (~is_paused(paused_games, g) /\ NoRows(g) /\ paused_games' # paused_games)
                 => is_paused(paused_games', g)
          /\ is_paused(paused_games, g) => is_paused(paused_games', g)]_vars

\* C11: a pass of the timer loop that has come to its end has handled every
\* game session: each one was either skipped as paused or had its body run,
\* whatever failed in the bodies of the others.
C11_TickIsolation ==
    (tick.ran /\ tick.pos = 0) => (tick.visited \cup tick.skipped = Games)

\* a finished pass in which the body of one game failed and the body of a
\* later game ran without failure
C11_Witness ==
    /\ tick.ran /\ tick.pos = 0
    /\ \E g \in tick.failed : \E k \in tick.visited \ tick.failed : k > g

\* C13: whatever updates and interactions ran on a pet, each of its four
\* stats is within [0, 100], in the manager and in the row it persisted.
InRange(stats) == \A n \in StatNames : stats[n] >= 0 /\ stats[n] <= P(100)
C13_StatsInRange ==
    /\ \A i \in DOMAIN managers : InRange(managers[i].stats)
    /\ \A p \in Pets : InRange(pet_stats[p].stats)

\* after an accepted interaction and a later completed update a stat sits
\* at the lower bound
C13_Witness ==
    \E i \in DOMAIN managers :
        /\ accepted # <<>>
        /\ managers[i].last_update > 0
        /\ \E n \in StatNames : managers[i].stats[n] = 0

\* the times at which an interaction of type T on pet p returned success
AcceptedTimes(p, T) ==
    {accepted[n].time : n \in {x \in DOMAIN accepted : accepted[x].pet = p /\ accepted[x].itype = T}}

\* at time t at least cooldown(T) has elapsed since the last accepted T on p
CooldownElapsed(p, T, t) ==
    \A last \in AcceptedTimes(p, T) : 2 * (t - last) >= INTERACTION_EFFECTS[T].cooldown

\* task k takes its decision on an interaction in this step
Decides(k) == pt[k].pc = "interact" /\ pt'[k].pc # "interact"

\* C14: an interaction of type T whose conditions are met passes the checks
\* of process_interaction if and only if at least cooldown(T) has elapsed
\* since the last accepted T on that pet, whatever was loaded, evicted or
\* removed in between.
C14_CooldownIffElapsed ==
    [][\A k \in PetTasks :
          (Decides(k) /\ validate_conditions(managers[pt[k].inst],
                                             INTERACTION_EFFECTS[pt[k].itype]))
              => ((pt'[k].pc = "persist_interact")
                    <=> CooldownElapsed(pt[k].pet, pt[k].itype, clock))]_vars

\* the same, only for the interactions that pass the checks
C14_AcceptedOnlyAfterCooldown ==
    [][\A k \in PetTasks :
          (Decides(k) /\ pt'[k].pc = "persist_interact")
              => CooldownElapsed(pt[k].pet, pt[k].itype, clock)]_vars

\* the precedence rule: SLEEPING if energy < 20, else SICK if hygiene < 30,
\* else UNHAPPY if happiness < 25, else NORMAL
PrecedenceState(stats) ==
    IF stats.energy < P(20) THEN "SLEEPING"
    ELSE IF stats.hygiene < P(30) THEN "SICK"
    ELSE IF stats.happiness < P(25) THEN "UNHAPPY"
    ELSE "NORMAL"

\* task k completes an update() in this step
CompletesUpdate(k) ==
    /\ pt[k].pc = "persist_update"
    /\ \/ pt[k].op = "view_update" /\ pt'[k] = Finished("updated")
       \/ pt[k].op = "get_pet_state" /\ pt'[k].pc = "exit"

\* task k has its interaction accepted in this step
AcceptsInteraction(k) == pt[k].pc = "persist_interact" /\ accepted' # accepted

\* C15: when an update() completes or an interaction is accepted, the state
\* of the manager is the one the precedence rule gives for its stats.
C15_StateFollowsPrecedence ==
    [][\A k \in PetTasks :
          (CompletesUpdate(k) \/ AcceptsInteraction(k))
              => managers'[pt[k].inst].state = PrecedenceState(managers'[pt[k].inst].stats)]_vars

\* every condition declared for T holds against the stats of the manager,
\* the state derived from them and its treat count
ConditionsHold(m, T) ==
    LET c == INTERACTION_EFFECTS[T].conditions
        derived == calculate_state(m.stats)
    IN  /\ c.not_sleeping => derived # "SLEEPING"
        /\ c.is_sleeping => derived = "SLEEPING"
        /\ c.max_hunger # Absent => m.stats.hunger < c.max_hunger
        /\ c.min_energy # Absent => m.stats.energy >= c.min_energy
        /\ c.max_energy # Absent => m.stats.energy < c.max_energy
        /\ c.max_treats_per_day # Absent => m.treat_count < c.max_treats_per_day
        /\ c.is_sick => derived = "SICK"

TreatsInWindow(p, t) ==
    {n \in DOMAIN accepted : /\ accepted[n].pet = p
                             /\ accepted[n].itype = "TREAT"
                             /\ accepted[n].time >= t
                             /\ accepted[n].time < t + DayHours}

\* C17: for every pet, at most 3 TREAT interactions are accepted in any
\* 24-hour window, whatever interactions, updates, evictions and reloads
\* came before.
C17_RollingTreatLimit ==
    \A p \in Pets : \A t \in 0..MaxClock : Cardinality(TreatsInWindow(p, t)) <= 3

\* ---- game/cache.py: its own PetStateManager and StateManager ----

\* cache.py _calculate_state: no hunger clause
cache_calculate_state(stats) ==
    IF stats.energy < P(20) THEN "SLEEPING"
    ELSE IF stats.hygiene < P(30) THEN "SICK"
    ELSE IF stats.happiness < P(25) THEN "UNHAPPY"
    ELSE "NORMAL"

\* cache.py _calculate_decay for a whole number of elapsed hours, in half
\* points
cache_calculate_decay(stats, state, elapsed_hours) ==
    LET unmet == \E n \in {"hunger", "energy", "hygiene"} : stats[n] < P(20)
        happiness == IF unmet THEN -P(1) * elapsed_hours - P(5) * elapsed_hours
                     ELSE -P(1) * elapsed_hours
    IN  [hunger |-> -P(2) * elapsed_hours,
         hygiene |-> -P(3) * elapsed_hours,
         happiness |-> IF state = "SICK" THEN happiness * 2 ELSE happiness,
         energy |-> IF state = "SLEEPING" THEN P(10) * elapsed_hours
                    ELSE -P(5) * elapsed_hours]

\* cache.py PetStateManager.__init__
cache_PetStateManager(pet_id, initial_stats, t) ==
    [PetStateManager(pet_id, initial_stats, t) EXCEPT
        !.state = cache_calculate_state(initial_stats.stats)]

\* cache.py update, from taking the lock to the await of _persist_stats
cache_update_apply(m, t) ==
    LET decay == cache_calculate_decay(m.stats, m.state, t - m.last_update)
        stats == apply_stat_changes(m.stats, decay)
    IN  [m EXCEPT !.stats = stats, !.state = cache_calculate_state(stats),
                  !.decayed_at = t, !.before = Snapshot(m)]

\* cache.py get_pet_state -> load_pet: a hit refreshes the last access and
\* returns the cached manager without an await; a miss awaits get_pet_stats
cache_load_pet_start(k, p) ==
    /\ UNCHANGED button_vars
    /\ may_start(k)
    /\ sm_lock = 0
    /\ p \in DOMAIN pet_states \/ Len(managers) < MaxManagers
    /\ IF p \in DOMAIN pet_states
       THEN /\ last_access' = Put(last_access, p, clock)
            /\ views' = views \cup {pet_states[p]}
            /\ pt' = [pt EXCEPT ![k] = [IdleTask EXCEPT !.pc = "exit", !.op = "get_pet_state",
                                                       !.inst = pet_states[p], !.pet = p]]
            /\ UNCHANGED sm_lock
       ELSE /\ sm_lock' = k
            /\ pt' = [pt EXCEPT ![k] = [IdleTask EXCEPT !.pc = "query", !.op = "get_pet_state",
                                                       !.pet = p]]
            /\ UNCHANGED <<last_access, views>>
    /\ pet_ops' = pet_ops + 1
    /\ UNCHANGED <<clock, pet_stats, managers, pet_states, accepted>>

\* cache.py load_pet after get_pet_stats returned
cache_load_pet_fetch(k) ==
    /\ UNCHANGED button_vars
    /\ pt[k].pc = "query"
    /\ \E ok \in BOOLEAN :
        LET p == pt[k].pet
            i == Len(managers) + 1
        IN  IF ok
            THEN /\ managers' = Append(managers,
                                       cache_PetStateManager(p, get_pet_stats(pet_stats, p), clock))
                 /\ pet_states' = Put(pet_states, p, i)
                 /\ last_access' = Put(last_access, p, clock)
                 /\ views' = views \cup {i}
                 /\ pt' = [pt EXCEPT ![k].pc = "exit", ![k].inst = i]
            ELSE /\ pt' = [pt EXCEPT ![k] = Finished("not_loaded")]
                 /\ UNCHANGED <<managers, pet_states, last_access, views>>
    /\ sm_lock' = 0
    /\ UNCHANGED <<clock, pet_stats, accepted, pet_ops>>

\* cache.py update up to the await of _persist_stats
cache_update_begin(k) ==
    /\ UNCHANGED button_vars
    /\ pt[k].pc = "update"
    /\ lock_available(managers, pt[k].inst)
    /\ \E fail \in {"none", "elapsed"} :
         IF fail = "elapsed"
         THEN /\ after_update(k, FALSE)
              /\ UNCHANGED managers
         ELSE /\ managers' = [managers EXCEPT ![pt[k].inst] =
                                 [cache_update_apply(@, clock) EXCEPT !.lock = k]]
              /\ pt' = [pt EXCEPT ![k].pc = "persist_update", ![k].t = clock]
              /\ UNCHANGED <<pet_states, last_access, sm_lock, views>>
    /\ UNCHANGED <<clock, pet_stats, accepted, pet_ops>>

\* cache.py cleanup_cache: under the lock and without an await, every stale
\* pet is deleted from _pet_states and _last_access.  A stale pet that is
\* not in _pet_states raises KeyError out of the loop; the stale pets
\* deleted before it (gone) depend on the order of the dict.
cache_cleanup_cache(k) ==
    /\ UNCHANGED button_vars
    /\ may_start(k)
    /\ sm_lock = 0
    /\ LET stale == stale_pets(last_access, clock)
           loaded == stale \cap DOMAIN pet_states
       IN  /\ stale # {}
           /\ \E gone \in SUBSET loaded :
                /\ stale = loaded => gone = stale
                /\ pet_states' = [p \in (DOMAIN pet_states) \ gone |-> pet_states[p]]
                /\ last_access' = [p \in (DOMAIN last_access) \ gone |-> last_access[p]]
                /\ pt' = [pt EXCEPT ![k] = Finished(IF stale = loaded THEN "evicted"
                                                    ELSE "error")]
    /\ pet_ops' = pet_ops + 1
    /\ UNCHANGED <<clock, pet_stats, managers, sm_lock, views, accepted>>

\* cache.py: concurrent loads, view updates and the cleanup sweep
NextCache ==
    \/ \E k \in PetTasks, i \in views : view_update_start(k, i)
    \/ \E k \in PetTasks, p \in Pets : cache_load_pet_start(k, p)
    \/ \E k \in PetTasks : cache_load_pet_fetch(k)
    \/ \E k \in PetTasks : get_pet_state_exit(k)
    \/ \E k \in PetTasks : cache_update_begin(k)
    \/ \E k \in PetTasks : manager_update_end(k)
    \/ \E k \in PetTasks : cache_cleanup_cache(k)
    \/ PetAdvance

SpecCache == InitPet /\ [][NextCache]_vars

\* pet p leaves the cache in a step of the cleanup sweep
CleanupEvicts(p) ==
    /\ p \in DOMAIN pet_states
    /\ p \notin DOMAIN pet_states'
    /\ \E k \in PetTasks : pt'[k] # pt[k] /\ pt'[k].result \in {"evicted", "error"}

\* the step ends an update of pet p made by the cleanup sweep whose persist
\* stored the stats of the cached manager
FinalUpdatePersisted(p) ==
    \E k \in PetTasks :
        /\ pt[k].op = "cleanup_cache"
        /\ pt[k].pc = "persist_update"
        /\ pt[k].pet = p
        /\ pet_stats'[p].last_update = clock
        /\ \A n \in StatNames :
              pet_stats'[p].stats[n] = tinyint(managers[pet_states[p]].stats[n])

\* C18: the cleanup sweep evicts a pet only when its last access is older
\* than the cache timeout and only in the step that ends a final update of
\* that pet whose persist succeeded; a pet whose final persist failed stays
\* in the cache.
C18_EvictOnlyAfterFinalUpdate ==
    [][\A p \in Pets :
          CleanupEvicts(p) =>
             /\ (clock - last_access[p]) > cache_timeout
             /\ FinalUpdatePersisted(p)]_vars

\* the PetStateManager instances of pet p that the cache or an open view
\* still refers to
LiveManagers(p) ==
    {i \in DOMAIN managers :
        /\ managers[i].pet_id = p
        /\ \/ i \in views
           \/ \E q \in DOMAIN pet_states : pet_states[q] = i}

\* C19: at any time at most one PetStateManager instance per pet id is
\* live, counting the cached instance and the instances open pet views
\* still hold.
C19_OneLiveManagerPerPet == \A p \in Pets : Cardinality(LiveManagers(p)) <= 1

\* task k is inside update() or process_interaction() of manager i, between
\* its read of the stats and the end of its persist
InManager(k, i) ==
    /\ pt[k].inst = i
    /\ pt[k].pc \in {"persist_update", "persist_interact"}

\* task k has called update() or process_interaction() of manager i and has
\* not yet entered it
WaitsForManager(k, i) ==
    /\ pt[k].inst = i
    /\ pt[k].pc \in {"update", "interact"}

\* C20: update() and process_interaction() on one PetStateManager instance
\* exclude each other: no two tasks are at once between reading the stats
\* and finishing the persist, and the task that is there holds the lock.
C20_ManagerCallsExclusive ==
    \A i \in DOMAIN managers : \A k, j \in PetTasks :
        /\ (InManager(k, i) /\ InManager(j, i)) => k = j
        /\ InManager(k, i) => managers[i].lock = k

\* a task is suspended in its persist with changed stats not yet stored
\* while another task has called into the same manager and waits
C20_Witness ==
    \E i \in DOMAIN managers : \E k, j \in PetTasks :
        /\ k # j
        /\ InManager(k, i)
        /\ pt[k].pc = "persist_interact"
        /\ WaitsForManager(j, i)
        /\ \E n \in StatNames :
              tinyint(managers[i].stats[n]) # pet_stats[managers[i].pet_id].stats[n]

\* task k is suspended in a call of the store: get_pet_stats of load_pet or
\* the update_pet_stats of _persist_stats
InStoreIO(k) == pt[k].pc \in {"query", "persist_update", "persist_interact"}

\* C21: the lock of the StateManager is never held by a task whose store
\* call (the load of a pet's stats, or the persist inside update()) is in
\* progress.
C21_CacheLockNotHeldDuringIO ==
    \A k \in PetTasks : sm_lock = k => ~InStoreIO(k)

\* after the step the row of manager i's pet holds the stats of manager i,
\* written at the current time
Stored(i) ==
    LET row == pet_stats'[managers[i].pet_id]
    IN  /\ row.last_update = clock
        /\ \A n \in StatNames : row.stats[n] = tinyint(managers[i].stats[n])

\* the step returns from the persist of update() to a caller that is told
\* the update succeeded
UpdateReportsSuccess(k) ==
    /\ pt[k].pc = "persist_update"
    /\ \/ pt[k].op = "view_update" /\ pt'[k].result = "updated"
       \/ pt[k].op = "get_pet_state" /\ pt'[k].pc = "exit"
       \/ pt[k].op = "remove_pet" /\ pt'[k].result = "removed"
       \/ pt[k].op = "cleanup_cache" /\ pt'[k].result = "evicted"

\* the step returns from the persist of process_interaction() with
\* success = True
InteractionReportsSuccess(k) ==
    /\ pt[k].pc = "persist_interact"
    /\ pt'[k].result = "accepted"

SecondUpdateAtOnce(k) ==
    /\ pt[k].pc = "update"
    /\ pt'[k].pc = "persist_update"
    /\ managers[pt[k].inst].decayed_at = clock

\* C23: an update() that follows another update() of the same pet with no
\* time elapsed between them leaves the four stats and the derived state
\* as the first call left them.
C23_UpdateIdempotent ==
    [][\A k \in PetTasks :
          SecondUpdateAtOnce(k) =>
             /\ managers'[pt[k].inst].stats = managers[pt[k].inst].stats
             /\ managers'[pt[k].inst].state = managers[pt[k].inst].state]_vars

\* the same, for a second update() that follows a first one whose persist
\* succeeded
C23_IdempotentAfterPersist ==
    [][\A k \in PetTasks :
          (SecondUpdateAtOnce(k) /\ managers[pt[k].inst].last_update = clock) =>
             /\ managers'[pt[k].inst].stats = managers[pt[k].inst].stats
             /\ managers'[pt[k].inst].state = managers[pt[k].inst].state]_vars

\* ---------------------------------------------------- utils/utils.py colours
\* largest timer duration of the colour and MMR evaluations, in seconds
MaxDuration == 6

\* the timer values and durations the functions are evaluated on
TimerValues == (-1)..(MaxDuration + 1)
Durations == (-1)..MaxDuration

\* COLOR_STATES, indexed as in Python
COLOR_STATES ==
    [i \in 0..5 |-> CASE i = 0 -> <<194, 65, 65>>
                      [] i = 1 -> <<219, 124, 48>>
                      [] i = 2 -> <<203, 166, 53>>
                      [] i = 3 -> <<80, 155, 105>>
                      [] i = 4 -> <<64, 105, 192>>
                      [] i = 5 -> <<106, 76, 147>>]

\* a variant of round_hundredths that cuts the digits off
round_hundredths_cut(a, b) == (100 * a) \div b

\* round(a / b, 2) in hundredths, for a >= 0 and b > 0: to the nearest
\* hundredth, a half-way case to the even one
round_hundredths(a, b) ==
    LET q == (100 * a) \div b
        r == (100 * a) % b
    IN  IF 2 * r > b \/ (2 * r = b /\ q % 2 = 1) THEN q + 1 ELSE q

\* max(0, min(timer_value, timer_duration))
clamp_timer_value(tv, td) == Max2(0, Min2(tv, td))

\* max(1, timer_duration)
floor_duration(td) == Max2(1, td)

\* get_color_state: percentage is round(timer_value / timer_duration * 100, 2),
\* here in hundredths of a percent
get_color_state(tv, td) ==
    LET percentage == round_hundredths(100 * clamp_timer_value(tv, td), floor_duration(td))
    IN  IF percentage >= 8333 THEN COLOR_STATES[5]
        ELSE IF percentage >= 6667 THEN COLOR_STATES[4]
        ELSE IF percentage >= 5000 THEN COLOR_STATES[3]
        ELSE IF percentage >= 3333 THEN COLOR_STATES[2]
        ELSE IF percentage >= 1667 THEN COLOR_STATES[1]
        ELSE COLOR_STATES[0]

\* get_color_emoji: the same rounding and thresholds
get_color_emoji(tv, td) ==
    LET percentage == round_hundredths(100 * clamp_timer_value(tv, td), floor_duration(td))
    IN  IF percentage >= 8333 THEN "purple_circle"
        ELSE IF percentage >= 6667 THEN "blue_circle"
        ELSE IF percentage >= 5000 THEN "green_circle"
        ELSE IF percentage >= 3333 THEN "yellow_circle"
        ELSE IF percentage >= 1667 THEN "orange_circle"
        ELSE "red_circle"

\* get_color_name: percentage is timer_value / timer_duration * 100, not
\* rounded; percentage >= 83.33 is 10000 * value >= 8333 * duration
get_color_name(tv, td) ==
    LET v == clamp_timer_value(tv, td)
        d == floor_duration(td)
    IN  IF 10000 * v >= 8333 * d THEN "Purple"
        ELSE IF 10000 * v >= 6667 * d THEN "Blue"
        ELSE IF 10000 * v >= 5000 * d THEN "Green"
        ELSE IF 10000 * v >= 3333 * d THEN "Yellow"
        ELSE IF 10000 * v >= 1667 * d THEN "Orange"
        ELSE "Red"

\* ------------------------------- message/message_handlers.py calculate_mmr
\* int(a / b): the quotient cut towards zero
int_quotient(a, b) ==
    LET q == (IF a < 0 THEN -a ELSE a) \div (IF b < 0 THEN -b ELSE b)
    IN  IF (a < 0) = (b < 0) THEN q ELSE -q

\* calculate_mmr, the bracket: min(5, int(percentage / 16.66667)) with
\* percentage = timer_value / timer_duration * 100, for a duration other
\* than 0
mmr_bracket(tv, td) == Min2(5, int_quotient(10000000 * tv, 1666667 * td))

\* no bracket computed yet
NoBracket == -9

\* the colour functions are to be evaluated on (tv, td)
ColorCall(tv, td) ==
    [fn |-> "color", timer_value |-> tv, timer_duration |-> td,
     state |-> <<>>, emoji |-> "none", name |-> "none", bracket |-> NoBracket,
     raised |-> "none"]

InitColor ==
    /\ InitWith(Games)
    /\ PetStart(NewPetStats)
    /\ \E tv \in TimerValues, td \in Durations : call = ColorCall(tv, td)

get_color_state_call ==
    /\ call.fn = "color"
    /\ call.state = <<>>
    /\ call' = [call EXCEPT !.state = get_color_state(call.timer_value, call.timer_duration)]
    /\ UNCHANGED world_vars

get_color_emoji_call ==
    /\ call.fn = "color"
    /\ call.emoji = "none"
    /\ call' = [call EXCEPT !.emoji = get_color_emoji(call.timer_value, call.timer_duration)]
    /\ UNCHANGED world_vars

get_color_name_call ==
    /\ call.fn = "color"
    /\ call.name = "none"
    /\ call' = [call EXCEPT !.name = get_color_name(call.timer_value, call.timer_duration)]
    /\ UNCHANGED world_vars

\* calculate_mmr up to its bracket; timer_value / timer_duration raises
\* ZeroDivisionError for a duration of 0
calculate_mmr_bracket_call ==
    /\ call.fn = "color"
    /\ call.bracket = NoBracket
    /\ call.raised = "none"
    /\ IF call.timer_duration = 0
       THEN call' = [call EXCEPT !.raised = "ZeroDivisionError"]
       ELSE call' = [call EXCEPT !.bracket = mmr_bracket(call.timer_value, call.timer_duration)]
    /\ UNCHANGED world_vars

NextColor ==
    \/ get_color_state_call
    \/ get_color_emoji_call
    \/ get_color_name_call
    \/ calculate_mmr_bracket_call

SpecColor == InitColor /\ [][NextColor]_vars

\* the bracket of the claim: remaining clamped into [0, duration], duration
\* floored at 1, and round(p, 2) >= x.xx exactly when p >= x.xx - 0.005
ColorBracket(tv, td) ==
    LET remaining == IF tv < 0 THEN 0 ELSE IF tv > td THEN (IF td < 0 THEN 0 ELSE td) ELSE tv
        duration == IF td < 1 THEN 1 ELSE td
    IN  IF 20000 * remaining >= 16665 * duration THEN 5
        ELSE IF 20000 * remaining >= 13333 * duration THEN 4
        ELSE IF 20000 * remaining >= 9999 * duration THEN 3
        ELSE IF 20000 * remaining >= 6665 * duration THEN 2
        ELSE IF 20000 * remaining >= 3333 * duration THEN 1
        ELSE 0

\* C24: get_color_state returns a colour for every timer value and
\* duration: PURPLE from 83.33 percent, BLUE from 66.67, GREEN from 50.00,
\* YELLOW from 33.33, ORANGE from 16.67 (each bound included), RED below,
\* of the rounded percentage of the clamped value; a full timer is PURPLE
\* and an empty one RED.
C24_ColorBracketTotal ==
    (call.fn = "color" /\ call.state # <<>>) =>
        /\ call.state = COLOR_STATES[ColorBracket(call.timer_value, call.timer_duration)]
        /\ (call.timer_duration >= 1 /\ call.timer_value = call.timer_duration) =>
               call.state = COLOR_STATES[5]
        /\ call.timer_value = 0 => call.state = COLOR_STATES[0]

\* a timer at exactly five sixths of its duration (83.33 percent after
\* rounding) was given PURPLE, and one at two thirds (66.67) BLUE
C24_Witness ==
    /\ call.fn = "color"
    /\ call.state # <<>>
    /\ \/ 6 * call.timer_value = 5 * call.timer_duration /\ call.state = COLOR_STATES[5]
       \/ 3 * call.timer_value = 2 * call.timer_duration /\ call.state = COLOR_STATES[4]
    /\ call.timer_duration > 0

\* the ordinal (0 red ... 5 purple) a derivation denotes
StateOrdinal(c) == CHOOSE i \in 0..5 : COLOR_STATES[i] = c

EmojiOrdinal(e) ==
    CASE e = "red_circle" -> 0 [] e = "orange_circle" -> 1 [] e = "yellow_circle" -> 2
      [] e = "green_circle" -> 3 [] e = "blue_circle" -> 4 [] e = "purple_circle" -> 5

NameOrdinal(n) ==
    CASE n = "Red" -> 0 [] n = "Orange" -> 1 [] n = "Yellow" -> 2
      [] n = "Green" -> 3 [] n = "Blue" -> 4 [] n = "Purple" -> 5

\* all four derivations have been evaluated on a remaining time within a
\* positive duration
ColorsEvaluated ==
    /\ call.fn = "color"
    /\ call.timer_duration >= 1
    /\ call.timer_value >= 0
    /\ call.timer_value <= call.timer_duration
    /\ call.state # <<>>
    /\ call.emoji # "none"
    /\ call.name # "none"
    /\ call.bracket # NoBracket

\* C25: for every remaining time and duration the embed tint
\* (get_color_state), the emoji (get_color_emoji), the role name
\* (get_color_name) and the bracket of calculate_mmr denote the same
\* colour bracket.
C25_ColorsAgree ==
    ColorsEvaluated =>
        /\ EmojiOrdinal(call.emoji) = StateOrdinal(call.state)
        /\ NameOrdinal(call.name) = StateOrdinal(call.state)
        /\ call.bracket = StateOrdinal(call.state)

\* the parts of C25, one derivation at a time
C25_EmojiAgrees == ColorsEvaluated => EmojiOrdinal(call.emoji) = StateOrdinal(call.state)

C25_NameAgrees == ColorsEvaluated => NameOrdinal(call.name) = StateOrdinal(call.state)

C25_MmrAgrees == ColorsEvaluated => call.bracket = StateOrdinal(call.state)

\* ------------------------------------------------ calculate_mmr, the score
\* The timer value is given in PositionSteps-ths of a bracket: n stands for
\* the timer value n / PositionSteps * 16.66667 / 100 * timer_duration, so
\* that percentage / bracket_size is n / PositionSteps.
PositionSteps == 4

MmrUnits == (1 - PositionSteps)..(7 * PositionSteps - 1)
MmrDurations == 1..MaxDuration

\* 2 ** e for a natural number e
RECURSIVE Pow2(_)
Pow2(e) == IF e = 0 THEN 1 ELSE 2 * Pow2(e - 1)

Abs(x) == IF x < 0 THEN -x ELSE x

\* bracket = min(5, int(percentage / bracket_size))
mmr_bracket_of(n) == Min2(5, int_quotient(n, PositionSteps))

\* bracket_position = (percentage % bracket_size) / bracket_size, in
\* PositionSteps-ths (Python's % takes the sign of the divisor)
bracket_position(n) == n % PositionSteps

\* a variant of position_multiplier with the rule of red and orange for
\* every bracket
position_multiplier_edge(bracket, pos) == 2 * (PositionSteps - pos)

\* position_multiplier, times 2 * PositionSteps
position_multiplier(bracket, pos) ==
    IF bracket <= 1 THEN 2 * (PositionSteps - pos)
    ELSE 2 * PositionSteps - Abs(PositionSteps - 2 * pos)

\* mmr = base_points * (1 + position_multiplier) * time_scale, times
\* 2 * PositionSteps * 43200
mmr_points(bracket, pos, td) ==
    Pow2(5 - bracket) * (2 * PositionSteps + position_multiplier(bracket, pos)) * td

calculate_mmr(n, td) == mmr_points(mmr_bracket_of(n), bracket_position(n), td)

MmrCall(n, td) == [fn |-> "mmr", units |-> n, timer_duration |-> td, mmr |-> 0]

InitMmr ==
    /\ InitWith(Games)
    /\ PetStart(NewPetStats)
    /\ \E n \in MmrUnits, td \in MmrDurations : call = MmrCall(n, td)

calculate_mmr_call ==
    /\ call.fn = "mmr"
    /\ call.mmr = 0
    /\ call' = [call EXCEPT !.mmr = calculate_mmr(call.units, call.timer_duration)]
    /\ UNCHANGED world_vars

NextMmr == calculate_mmr_call

SpecMmr == InitMmr /\ [][NextMmr]_vars

\* the position the rule of a bracket favours: the low edge for red and
\* orange, the midpoint for the others
FavouredPosition(bracket) == IF bracket <= 1 THEN 0 ELSE PositionSteps \div 2

\* C26: calculate_mmr does not increase with the bracket ordinal at a fixed
\* position within the bracket, and within a bracket it is largest at the
\* low edge for brackets 0 and 1 and at the midpoint for brackets 2 to 5.
C26_MmrMonotone ==
    (call.fn = "mmr" /\ call.mmr # 0) =>
        LET n == call.units
            td == call.timer_duration
        IN  /\ \A n2 \in MmrUnits :
                  (bracket_position(n2) = bracket_position(n)
                     /\ mmr_bracket_of(n2) >= mmr_bracket_of(n)) =>
                  calculate_mmr(n2, td) <= call.mmr
            /\ \A n2 \in MmrUnits :
                  (mmr_bracket_of(n2) = mmr_bracket_of(n)
                     /\ bracket_position(n2) = FavouredPosition(mmr_bracket_of(n))) =>
                  /\ calculate_mmr(n2, td) >= call.mmr
                  /\ bracket_position(n) # bracket_position(n2) =>
                         calculate_mmr(n2, td) > call.mmr

\* the score of a click in the first quarter of the green bracket has been
\* computed: it lies below the score at the midpoint of green and above the
\* score at the same position in blue
C26_Witness ==
    /\ call.fn = "mmr"
    /\ call.mmr # 0
    /\ mmr_bracket_of(call.units) = 3
    /\ bracket_position(call.units) = 1
    /\ call.mmr < calculate_mmr(3 * PositionSteps + PositionSteps \div 2, call.timer_duration)
    /\ call.mmr > calculate_mmr(4 * PositionSteps + 1, call.timer_duration)

\* ------------------------------------- database/database.py execute_query
\* largest retry_attempts a call is made with (the default is 3)
MaxRetryAttempts == 6

QueryKinds == {"SELECT", "INSERT", "UPDATE"}

\* what one pass of the loop body can meet
AttemptOutcomes == {"ok", "mysql_error", "exception"}

\* a variant of backoff without the cap
backoff_uncapped(attempt) == Pow2(attempt)

\* min(2 ** attempt, 10)
backoff(attempt) == Min2(Pow2(attempt), 10)

\* execute_query is called; pools tells whether db_pool and db_pool_timer
\* are set
QueryCall(kind, retry_attempts, pools) ==
    [fn |-> "execute_query", kind |-> kind, retry_attempts |-> retry_attempts,
     pools |-> pools, pc |-> "start", attempt |-> 0, log |-> <<>>, sleeps |-> <<>>,
     last_error |-> NoTime, outcome |-> "none", value |-> <<"none", NoTime>>]

InitQuery ==
    /\ InitWith(Games)
    /\ PetStart(NewPetStats)
    /\ \E kind \in QueryKinds, n \in 1..MaxRetryAttempts, pools \in BOOLEAN :
          call = QueryCall(kind, n, pools)

\* lines 125-128: without pools setup_pool is tried; when it fails None is
\* returned
execute_query_start ==
    /\ call.fn = "execute_query"
    /\ call.pc = "start"
    /\ \E setup \in BOOLEAN :
          IF ~call.pools /\ ~setup
          THEN call' = [call EXCEPT !.pc = "done", !.outcome = "returned",
                                    !.value = <<"None", NoTime>>]
          ELSE call' = [call EXCEPT !.pc = "attempt", !.pools = TRUE]
    /\ UNCHANGED world_vars

\* the result of the successful pass: cursor.lastrowid for an INSERT, the
\* fetched rows when the cursor has a description, True otherwise
query_result(kind, attempt) ==
    IF kind = "INSERT" THEN <<"lastrowid", attempt>>
    ELSE IF kind = "SELECT" THEN <<"rows", attempt>>
    ELSE <<"True", attempt>>

\* one pass of the loop body (lines 133-166), or the end of the loop
\* (168-174)
execute_query_attempt ==
    /\ call.fn = "execute_query"
    /\ call.pc = "attempt"
    /\ IF call.attempt >= call.retry_attempts
       THEN call' = [call EXCEPT !.pc = "done", !.outcome = "raised",
                                 !.value = <<"mysql_error", call.last_error>>]
       ELSE \E met \in AttemptOutcomes :
              LET logged == Append(call.log, met)
              IN  CASE met = "ok" ->
                        call' = [call EXCEPT !.log = logged, !.pc = "done",
                                             !.outcome = "returned",
                                             !.value = query_result(call.kind, call.attempt)]
                    [] met = "exception" ->
                        call' = [call EXCEPT !.log = logged, !.pc = "done",
                                             !.outcome = "raised",
                                             !.value = <<"exception", call.attempt>>]
                    [] met = "mysql_error" ->
                        IF call.attempt < call.retry_attempts - 1
                        THEN call' = [call EXCEPT !.log = logged, !.pc = "sleep",
                                                  !.last_error = call.attempt]
                        ELSE call' = [call EXCEPT !.log = logged,
                                                  !.last_error = call.attempt,
                                                  !.attempt = @ + 1]
    /\ UNCHANGED world_vars

\* time.sleep(min(2 ** attempt, 10)) returns and the loop goes on
execute_query_sleep ==
    /\ call.fn = "execute_query"
    /\ call.pc = "sleep"
    /\ call' = [call EXCEPT !.sleeps = Append(@, backoff(call.attempt)),
                            !.attempt = @ + 1, !.pc = "attempt"]
    /\ UNCHANGED world_vars

NextQuery ==
    \/ execute_query_start
    \/ execute_query_attempt
    \/ execute_query_sleep

SpecQuery == InitQuery /\ [][NextQuery]_vars

\* the attempts before the last one all met a database error
EarlierAllDatabaseErrors(log) == \A i \in 1..(Len(log) - 1) : log[i] = "mysql_error"

\* the k-th sleep follows the failed attempt with index k - 1 and lasts
\* min(2 ** (k - 1), 10)
SleepsAreBackoff(sleeps) ==
    \A k \in DOMAIN sleeps :
        sleeps[k] = (IF k - 1 >= 4 THEN 10
                     ELSE CASE k = 1 -> 1 [] k = 2 -> 2 [] k = 3 -> 4 [] k = 4 -> 8)

HandlerInFlight(g) == \E h \in Handlers : Active(h) /\ cb[h].game_id = g

\* C28: whenever a game cache entry exists and no click handler of that game
\* is in flight, its total_clicks and total_players equal the number of
\* ClickRecords and the number of distinct users of that game in the store.
C28_CacheTotalsMatchStore ==
    \A g \in DOMAIN game_cache :
        ~HandlerInFlight(g) =>
            /\ game_cache[g].total_clicks = Cardinality(GameRows(button_clicks, g))
            /\ game_cache[g].total_players =
                  Cardinality({button_clicks[i].user_id : i \in GameRows(button_clicks, g)})

\* --------------------------------------- cooldown under overlap (C29)
\* handler h has been accepted: its ClickRecord is stored and announced
Accepted(h) ==
    /\ cb[h].pc = "done"
    /\ cb[h].result = "clicked"
    /\ cb[h].rowid \in DOMAIN button_clicks

\* C29: the cooldown of a user is examined once, against the store as it is
\* at the handler's check, and never again: a handler that passed its check
\* inserts its ClickRecord (or ends with a store failure) whatever has been
\* inserted since.  So there is an interleaving of two overlapping handlers
\* of one user, both started while the user has no click inside the cooldown
\* window, in which both are accepted and two ClickRecords of that user are
\* inserted within one cooldown window (C29_Witness).
C29_CooldownExaminedOnce ==
    [][\A h \in Handlers :
          (cb[h].pc = "insert" /\ cb'[h].pc # "insert" /\ restarts' = restarts) =>
              \/ /\ cb'[h].pc = "announce"
                 /\ button_clicks' = insert_button_click(button_clicks, cb[h].user_id,
                         cb[h].click_time, cb[h].current_timer_value, cb[h].game_id)
              \/ /\ cb'[h].pc = "done"
                 /\ cb'[h].result = "store_failure"
                 /\ button_clicks' = button_clicks]_vars

\* both handlers started, checked and inserted at the present instant, so
\* neither found the other's record at its start or at its check; every
\* other record of the user lies outside the cooldown window
C29_Witness ==
    \E h, k \in Handlers :
        /\ h # k
        /\ Accepted(h) /\ Accepted(k)
        /\ cb[h].overlap /\ cb[k].overlap
        /\ cb[h].user_id = cb[k].user_id
        /\ cb[h].game_id = cb[k].game_id
        /\ cb[h].click_time = now /\ cb[k].click_time = now
        /\ cb[h].rowid # cb[k].rowid
        /\ button_clicks[cb[h].rowid].user_id = cb[h].user_id
        /\ button_clicks[cb[k].rowid].user_id = cb[k].user_id
        /\ button_clicks[cb[h].rowid].click_time = now
        /\ button_clicks[cb[k].rowid].click_time = now
        /\ \A i \in DOMAIN button_clicks \ {cb[h].rowid, cb[k].rowid} :
              button_clicks[i].user_id = cb[h].user_id =>
                  ~in_window(button_clicks[i].click_time, now, cooldown_duration)

\* ------------------------------------------- stale cache entries (C30)
\* the body of the loop for game g runs in this step and nothing in it fails
BodyRuns(g) == tick.pos = g /\ g \in tick'.visited /\ g \notin tick'.failed

\* the cache entry of g was last written longer ago than the window
Stale(g) == now - game_cache[g].last_update_time > StaleWindow

\* C30: a tick that finds a game cache entry whose last_update_time is older
\* than the staleness window clears the entry in the same tick; a tick that
\* finds an entry no older than the window leaves it as it is; and a tick
\* that finds no entry for a game with clicks builds one from the store (the
\* clicks and distinct users counted now, a click time of the game, written
\* now), which is what the tick after a clearing does.
C30_StaleEntryClearedThenRebuilt ==
    [][\A g \in Games :
          BodyRuns(g) =>
              /\ (g \in DOMAIN game_cache /\ Stale(g)) => g \notin DOMAIN game_cache'
              /\ (g \in DOMAIN game_cache /\ ~Stale(g)) =>
                    /\ g \in DOMAIN game_cache'
                    /\ game_cache'[g] = game_cache[g]
              /\ (g \notin DOMAIN game_cache /\ JoinedRows(button_clicks, users, g) # {}) =>
                    /\ g \in DOMAIN game_cache'
                    /\ game_cache'[g].last_update_time = now
                    /\ game_cache'[g].total_clicks =
                          Cardinality(GameRows(button_clicks, g))
                    /\ game_cache'[g].total_players =
                          Cardinality({button_clicks[i].user_id :
                                          i \in GameRows(button_clicks, g)})
                    /\ \E i \in GameRows(button_clicks, g) :
                          game_cache'[g].latest_click_time = button_clicks[i].click_time]_vars

\* an entry the loop cleared as stale has been built again by the body that
\* ran for the game in the present pass
C30_Witness ==
    \E g \in Games :
        /\ g \in tick.cleared
        /\ g \in tick.visited \ tick.failed
        /\ g \in DOMAIN game_cache
        /\ game_cache[g].last_update_time = now
        /\ now > StaleWindow

\* ------------------------------------------- update() that fails (C31)
\* the step ends the update() of task k without last_update reaching the
\* time of the call: its persist raised
PersistOfUpdateFails(k) ==
    /\ pt[k].pc = "persist_update"
    /\ pt'[k].pc # "persist_update"
    /\ managers'[pt[k].inst].last_update # pt[k].t

\* C31: if the persist inside update() fails, the stats, the state and
\* last_update of the manager are left exactly as they were before the
\* call, so that the decay of an interval is applied at most once.
C31_FailedUpdateLeavesPetUnchanged ==
    [][\A k \in PetTasks :
          PersistOfUpdateFails(k) =>
              LET m == managers[pt[k].inst]
                  n == managers'[pt[k].inst]
              IN  /\ n.stats = m.before.stats
                  /\ n.state = m.before.state
                  /\ n.last_update = m.before.last_update]_vars

\* ------------------------------------- rejected interactions (C32)
\* the step returns (False, message) from process_interaction() of task k
InteractionRejected(k) ==
    \/ /\ pt[k].pc = "interact"
       /\ pt'[k].pc = "done"
       /\ pt'[k].result \in {"cooldown", "conditions"}
    \/ /\ pt[k].pc = "persist_interact"
       /\ pt'[k].pc = "done"
       /\ pt'[k].result = "error"

\* what the call of task k found: the manager itself while the checks run,
\* the history field once the effect has been applied
FoundByCall(k) ==
    IF pt[k].pc = "interact" THEN Snapshot(managers[pt[k].inst])
    ELSE managers[pt[k].inst].before

\* C32: whenever process_interaction() returns accepted = false (on
\* cooldown, conditions not met, or a persist error), the stats, the derived
\* state, the treat count and the per-type cooldown history of the pet are
\* as they were before the call.
C32_RejectedInteractionChangesNothing ==
    [][\A k \in PetTasks :
          InteractionRejected(k) =>
              LET n == managers'[pt[k].inst]
                  b == FoundByCall(k)
              IN  /\ n.stats = b.stats
                  /\ n.state = b.state
                  /\ n.treat_count = b.treat_count
                  /\ n.interaction_history = b.interaction_history]_vars

\* the same, for the rejections decided before anything is applied
C32_RejectedByCheckChangesNothing ==
    [][\A k \in PetTasks :
          (InteractionRejected(k) /\ pt[k].pc = "interact") =>
              managers'[pt[k].inst] = managers[pt[k].inst]]_vars

\* ------------------------------------- persist and reload of stats (C33)
\* the values a stat is persisted with, in half points: the two ends of the
\* range, the values next to them and the middle
RoundTripValues == {0, 1, P(1), P(50), P(100) - 1, P(100)}

\* the stats handed to _persist_stats, the row it leaves and the stats of
\* the manager a later load_pet builds from that row
RoundTripCall(stats) ==
    [fn |-> "round_trip", stats |-> stats, pc |-> "persist", row |-> <<>>, loaded |-> <<>>]

InitRoundTrip ==
    /\ InitWith(Games)
    /\ PetStart(NewPetStats)
    /\ \E stats \in [StatNames -> RoundTripValues] : call = RoundTripCall(stats)

\* _persist_stats -> update_pet_stats for pet 1
persist_stats_call ==
    /\ call.fn = "round_trip"
    /\ call.pc = "persist"
    /\ call' = [call EXCEPT !.pc = "load",
                            !.row = update_pet_stats(pet_stats, 1, call.stats, clock)[1]]
    /\ UNCHANGED world_vars

\* load_pet on a cache miss: get_pet_stats, then PetStateManager(pet_id, stats)
load_pet_call ==
    /\ call.fn = "round_trip"
    /\ call.pc = "load"
    /\ call' = [call EXCEPT !.pc = "done",
                            !.loaded = PetStateManager(1,
                                get_pet_stats([pet_stats EXCEPT ![1] = call.row], 1),
                                clock).stats]
    /\ UNCHANGED world_vars

NextRoundTrip ==
    \/ persist_stats_call
    \/ load_pet_call

SpecRoundTrip == InitRoundTrip /\ [][NextRoundTrip]_vars

\* C33: for every stats record s with each value in [0,100], loading a pet
\* whose last persisted stats are s yields in-memory stats equal to s.
C33_PersistReloadRoundTrip ==
    (call.fn = "round_trip" /\ call.pc = "done") => call.loaded = call.stats

\* the same, for records of whole points none of which is 0
C33_RoundTripOfPositiveWholeStats ==
    ( /\ call.fn = "round_trip"
      /\ call.pc = "done"
      /\ \A n \in StatNames : call.stats[n] > 0 /\ call.stats[n] % 2 = 0 )
    => call.loaded = call.stats

\* the same, comparing the loaded stats with the row in the store
C33_LoadedEqualsRow ==
    (call.fn = "round_trip" /\ call.pc = "done") => call.loaded = call.row.stats

\* ---------------------------------------------- WAKE on every pet (C34)
\* the energies on both sides of the thresholds 20 (SLEEPING) and 50
\* (min_energy of WAKE) and the other stats at the ends and the middle, in
\* half points
WakeEnergies == <<0, P(20) - 1, P(20), P(50) - 1, P(50), P(100)>>
WakeOthers == <<0, P(50), P(100)>>
WakeInputs == Len(WakeEnergies) * Len(WakeOthers) * Len(WakeOthers) * Len(WakeOthers)

\* the n-th stats record of the scan
wake_stats(n) ==
    [energy |-> WakeEnergies[(n % 6) + 1],
     happiness |-> WakeOthers[((n \div 6) % 3) + 1],
     hunger |-> WakeOthers[((n \div 18) % 3) + 1],
     hygiene |-> WakeOthers[((n \div 54) % 3) + 1]]

\* process_interaction(WAKE) on a manager just built from the stats record:
\* the result of the cooldown and condition checks (lines 229-237)
wake_allowed(stats) ==
    LET m == PetStateManager(1, [stats |-> stats, last_update |-> 0], 0)
    IN  /\ check_cooldown(m.interaction_history, "WAKE", 0)
        /\ validate_conditions(m, INTERACTION_EFFECTS["WAKE"])

\* the scan: the records tried so far and those on which WAKE was allowed
WakeScan == [fn |-> "wake_scan", tried |-> 0, allowed |-> {}]

InitWake == InitWith(Games) /\ PetStart(NewPetStats) /\ call = WakeScan

\* WAKE is tried on the next record
wake_try ==
    /\ call.fn = "wake_scan"
    /\ call.tried < WakeInputs
    /\ call' = [call EXCEPT !.tried = @ + 1,
                            !.allowed = IF wake_allowed(wake_stats(call.tried))
                                        THEN @ \cup {call.tried} ELSE @]
    /\ UNCHANGED world_vars

NextWake == wake_try

SpecWake == InitWake /\ [][NextWake]_vars

\* C34: there is a pet state (stats in [0,100] with the state derived from
\* them) in which process_interaction(WAKE) is accepted: once WAKE has been
\* tried on every record, it was allowed on one of them.
C34_WakeUsable ==
    (call.fn = "wake_scan" /\ call.tried = WakeInputs) => call.allowed # {}

\* WAKE was allowed on none of the records tried
C34_WakeNeverAllowed == call.fn = "wake_scan" => call.allowed = {}

\* no accepted interaction of a pet is a WAKE
C34_NoWakeAccepted == \A i \in DOMAIN accepted : accepted[i].itype # "WAKE"

\* -------------------------------------- the two maps of the cache (C35)
\* interaction.py's StateManager under concurrent callers: get_pet_state with
\* its exit, the cleanup sweep and remove_pet, each suspended in its awaits
\* while the others run
NextSweep ==
    \/ \E k \in PetTasks, p \in Pets : get_pet_state_start(k, p)
    \/ \E k \in PetTasks : load_pet_fetch(k)
    \/ \E k \in PetTasks : get_pet_state_exit(k)
    \/ \E k \in PetTasks : cleanup_cache_start(k)
    \/ \E k \in PetTasks, p \in Pets : remove_pet_start(k, p)
    \/ \E k \in PetTasks : manager_update_begin(k)
    \/ \E k \in PetTasks : manager_update_end(k)
    \/ PetAdvance

SpecSweep == InitClick /\ [][NextSweep]_vars

\* C35: whenever the lock of StateManager is free, _last_access and
\* _pet_states have the same keys.
C35_CacheMapsSameKeys ==
    sm_lock = 0 => DOMAIN last_access = DOMAIN pet_states

\* ------------------------------------ the locks of the pet cache (C36)
\* a force_update that would load the pet through load_pet while it holds
\* the lock of StateManager: the lock is not re-entrant, so the call waits
\* for itself
force_update_start_reentrant(k, p) ==
    /\ UNCHANGED button_vars
    /\ may_start(k)
    /\ sm_lock = 0
    /\ p \in DOMAIN pet_states
    /\ pt' = [pt EXCEPT ![k] = [IdleTask EXCEPT !.pc = "wait_cache_lock", !.op = "force_update",
                                               !.pet = p, !.inst = pet_states[p]]]
    /\ sm_lock' = k
    /\ pet_ops' = pet_ops + 1
    /\ UNCHANGED <<clock, pet_stats, managers, pet_states, last_access, views, accepted>>

\* force_update up to its await of update(); a pet that is not loaded
\* returns False at once
force_update_start(k, p) ==
    /\ UNCHANGED button_vars
    /\ may_start(k)
    /\ sm_lock = 0
    /\ p \in DOMAIN pet_states
    /\ pt' = [pt EXCEPT ![k] = [IdleTask EXCEPT !.pc = "update", !.op = "force_update",
                                               !.pet = p, !.inst = pet_states[p]]]
    /\ sm_lock' = k
    /\ pet_ops' = pet_ops + 1
    /\ UNCHANGED <<clock, pet_stats, managers, pet_states, last_access, views, accepted>>

\* update_all up to its await of the gathered updates; with nothing loaded
\* it returns at once
update_all_start(k) ==
    /\ UNCHANGED button_vars
    /\ may_start(k)
    /\ sm_lock = 0
    /\ DOMAIN pet_states # {}
    /\ LET todo == DOMAIN pet_states
       IN  pt' = [pt EXCEPT ![k] = [IdleTask EXCEPT !.pc = "update", !.op = "update_all",
                                                   !.pet = MinOf(todo),
                                                   !.inst = pet_states[MinOf(todo)],
                                                   !.todo = todo \ {MinOf(todo)}]]
    /\ sm_lock' = k
    /\ pet_ops' = pet_ops + 1
    /\ UNCHANGED <<clock, pet_stats, managers, pet_states, last_access, views, accepted>>

\* the interaction the views offer where the locks are studied
FairInteractions == {"PET"}

\* every operation of StateManager and of the managers, by concurrent tasks
NextFair ==
    \/ \E k \in PetTasks, i \in views : view_update_start(k, i)
    \/ \E k \in PetTasks, i \in views, T \in FairInteractions : view_interact_start(k, i, T, 1)
    \/ \E k \in PetTasks, p \in Pets : get_pet_state_start(k, p)
    \/ \E k \in PetTasks : load_pet_fetch(k)
    \/ \E k \in PetTasks : get_pet_state_exit(k)
    \/ \E k \in PetTasks : cleanup_cache_start(k)
    \/ \E k \in PetTasks, p \in Pets : remove_pet_start(k, p)
    \/ \E k \in PetTasks, p \in Pets : force_update_start(k, p)
    \/ \E k \in PetTasks : update_all_start(k)
    \/ \E k \in PetTasks : manager_update_begin(k)
    \/ \E k \in PetTasks : manager_update_end(k)
    \/ \E k \in PetTasks : manager_interact_begin(k)
    \/ \E k \in PetTasks : manager_interact_end(k)
    \/ PetAdvance

\* a store call of task k returns, or the block of its get_pet_state ends
Returns(k) ==
    \/ load_pet_fetch(k)
    \/ manager_update_end(k)
    \/ manager_interact_end(k)
    \/ get_pet_state_exit(k)

\* task k is given the lock of the manager it waits for
Acquires(k) == manager_update_begin(k) \/ manager_interact_begin(k)

\* every store call returns; the event loop runs every task that can run and
\* asyncio.Lock hands the lock to its waiters in the order they came
SpecFair ==
    /\ InitClick
    /\ [][NextFair]_vars
    /\ \A k \in PetTasks : WF_vars(Returns(k)) /\ SF_vars(Acquires(k))

\* task k holds no lock
HoldsNoLock(k) ==
    /\ sm_lock # k
    /\ \A i \in DOMAIN managers : managers[i].lock # k

\* C36: the pet cache is deadlock-free: every started operation (load_pet,
\* update_all, cleanup_cache, force_update, remove_pet, update,
\* process_interaction) eventually completes and releases its locks, under
\* fair scheduling and provided each store call returns.
C36_OperationsComplete ==
    \A k \in PetTasks : PetActive(k) ~> (~PetActive(k) /\ HoldsNoLock(k))

\* a task that holds the lock of StateManager waits for the lock of a
\* manager that another task holds while it is suspended in its persist
C36_Witness ==
    \E k, j \in PetTasks :
        /\ k # j
        /\ sm_lock = k
        /\ pt[k].pc = "update"
        /\ pt[k].op \in {"force_update", "update_all", "remove_pet", "cleanup_cache",
                          "get_pet_state"}
        /\ managers[pt[k].inst].lock = j
        /\ pt[j].pc \in {"persist_update", "persist_interact"}

\* ------------------------------------------ game/state.py PetState (C37)
\* whole hours since last_update when update() is called, and the values of
\* hygiene and happiness on both sides of the thresholds, in points
MaxHours == 3
StateHours == 0..MaxHours
StateLevels == {0, 30, 32, 34, 100}
PetStatuses == {"NORMAL", "SLEEPING", "SICK", "UNHAPPY"}

\* a PetState whose update() is about to be called: lock is the holder of
\* self._lock, pc the position of update(), setter what another caller of
\* set_state has done
StateCall(hygiene, happiness, hours) ==
    [fn |-> "PetState.update", pc |-> "start", lock |-> "free",
     stats |-> [hunger |-> 100, energy |-> 100, hygiene |-> hygiene, happiness |-> happiness],
     hours_elapsed |-> hours, state |-> "NORMAL", new_state |-> "none", setter |-> "idle"]

InitState ==
    /\ InitWith(Games)
    /\ PetStart(NewPetStats)
    /\ \E hygiene \in StateLevels, happiness \in StateLevels, hours \in StateHours :
          call = StateCall(hygiene, happiness, hours)

\* lines 129-141: max(0, stat - int(rate * hours_elapsed))
state_decay(stats, hours) ==
    [hunger |-> Max2(0, stats.hunger - 5 * hours),
     energy |-> Max2(0, stats.energy - 3 * hours),
     hygiene |-> Max2(0, stats.hygiene - 4 * hours),
     happiness |-> Max2(0, stats.happiness - 2 * hours)]

\* lines 143-148: the state update() asks set_state for
state_of_stats(stats) ==
    IF stats.hygiene < 30 THEN "SICK"
    ELSE IF stats.happiness < 30 THEN "UNHAPPY"
    ELSE "NORMAL"

\* update(), lines 129-148: the lock is taken; with less than an hour
\* elapsed the call ends and the lock is released, otherwise the stats decay
\* and the call awaits set_state while it holds the lock
state_update_begin ==
    /\ call.fn = "PetState.update"
    /\ call.pc = "start"
    /\ call.lock = "free"
    /\ IF call.hours_elapsed >= 1
       THEN LET stats == state_decay(call.stats, call.hours_elapsed)
            IN  call' = [call EXCEPT !.lock = "update", !.stats = stats,
                                     !.new_state = state_of_stats(stats),
                                     !.pc = "set_state"]
       ELSE call' = [call EXCEPT !.pc = "done"]
    /\ UNCHANGED world_vars

\* set_state, lines 123-126: `async with self._lock`, which asyncio.Lock
\* grants only when nobody holds it, then the assignment and the release.
\* Called by update() it is followed by line 150 and the release of the
\* lock update() took; called by anyone else it is the whole call.
set_state(caller, new_state) ==
    /\ call.fn = "PetState.update"
    /\ call.lock = "free"
    /\ IF caller = "update"
       THEN /\ call.pc = "set_state"
            /\ new_state = call.new_state
            /\ call' = [call EXCEPT !.state = new_state, !.hours_elapsed = 0,
                                    !.pc = "done"]
       ELSE /\ call.setter = "idle"
            /\ call' = [call EXCEPT !.state = new_state, !.setter = "done"]
    /\ UNCHANGED world_vars

NextState ==
    \/ state_update_begin
    \/ \E caller \in {"update", "other"}, new_state \in PetStatuses : set_state(caller, new_state)

SpecState == InitState /\ [][NextState]_vars

\* the next step of the running update()
UpdateStep ==
    \/ state_update_begin
    \/ \E new_state \in PetStatuses : set_state("update", new_state)

\* C37: PetState.update() always terminates and releases the pet's lock,
\* for every elapsed time including one hour or more: until it has ended
\* the call can take its next step, and when it has ended the lock is free.
C37_StateUpdateTerminates ==
    call.fn = "PetState.update" =>
        /\ call.pc # "done" => ENABLED UpdateStep
        /\ call.pc = "done" => call.lock = "free"

\* the same, for calls made less than an hour after the last update
C37_ShortUpdateTerminates ==
    (call.fn = "PetState.update" /\ call.hours_elapsed < 1) =>
        /\ call.pc # "done" => ENABLED UpdateStep
        /\ call.pc = "done" => call.lock = "free"

\* --------------------------------------- the first click of a game (C38)
\* C38: a game can receive its first click through the button: a click
\* attempt in a game with no ClickRecords yet can pass its check and go on
\* to insert the game's first ClickRecord.
C38_FirstClickThroughButton ==
    \A h \in Handlers :
        (cb[h].pc = "check" /\ GameRows(button_clicks, cb[h].game_id) = {}) =>
            ENABLED (callback_check(h) /\ cb'[h].pc = "insert")

\* a game without ClickRecords never gets one
C38_UnclickedGameStaysUnclicked ==
    [][\A g \in Games :
          GameRows(button_clicks, g) = {} => GameRows(button_clicks', g) = {}]_vars

\* the same possibility of acceptance, for a first attempt in a game that
\* has its seed click and is still running
C38_ClickInSeededGamePossible ==
    \A h \in Handlers :
        ( /\ cb[h].pc = "check"
          /\ GameRows(button_clicks, cb[h].game_id) # {}
          /\ button_clicks = SeedClicks(Games \ {NumGames})
          /\ cb[h].click_time = now
          /\ now < timer_duration
          /\ ~HasClickInCooldown(button_clicks, cb[h].user_id, cb[h].game_id, now) )
        => ENABLED (callback_check(h) /\ cb'[h].pc = "insert")

\* ------------------------------- database/database.py create_pet (C39)
\* commands.py: self.pet_limit
pet_limit == 2

\* the tables create_pet writes: pets (every row is inserted with
\* active = TRUE, the column default), pet_stats by pet_id, and
\* user_data.total_pets by user; lastrowid is the AUTO_INCREMENT of pets
CreateCall ==
    [fn |-> "create", pc |-> "idle", user |-> 0, pet_id |-> 0, result |-> "none",
     pets |-> {}, stats_rows |-> {}, total_pets |-> [u \in Users |-> 0], lastrowid |-> 0]

InitCreate == InitWith(Games) /\ PetStart(NewPetStats) /\ call = CreateCall

\* SELECT COUNT(*) FROM pets WHERE user_id = %s AND active = TRUE
get_user_pet_count(pets, u) == Cardinality({row \in pets : row.user_id = u})

\* the create command up to its call of create_pet: the pet limit is
\* checked against the active rows of the user
create(u) ==
    /\ call.fn = "create"
    /\ call.pc \in {"idle", "done"}
    /\ call' = IF get_user_pet_count(call.pets, u) >= pet_limit
               THEN [call EXCEPT !.pc = "done", !.user = u, !.pet_id = 0, !.result = "limit"]
               ELSE [call EXCEPT !.pc = "insert_pet", !.user = u, !.pet_id = 0,
                                 !.result = "none"]
    /\ UNCHANGED world_vars

\* one statement of create_pet; each execute_query commits on its own
\* connection, and when it raises (ok = FALSE) the except branch returns
\* None without undoing the statements before it
create_pet(ok) ==
    /\ call.fn = "create"
    /\ call.pc \in {"insert_pet", "insert_stats", "upsert_user"}
    /\ call' =
         IF ~ok THEN [call EXCEPT !.pc = "done", !.result = "failed"]
         ELSE CASE call.pc = "insert_pet" ->
                     [call EXCEPT !.pc = "insert_stats",
                                  !.lastrowid = @ + 1,
                                  !.pet_id = call.lastrowid + 1,
                                  !.pets = @ \cup {[pet_id |-> call.lastrowid + 1,
                                                    user_id |-> call.user]}]
                [] call.pc = "insert_stats" ->
                     [call EXCEPT !.pc = "upsert_user",
                                  !.stats_rows = @ \cup {call.pet_id}]
                [] call.pc = "upsert_user" ->
                     [call EXCEPT !.pc = "done", !.result = "created",
                                  !.total_pets[call.user] = @ + 1]
    /\ UNCHANGED world_vars

NextCreate ==
    \/ \E u \in Users : create(u)
    \/ \E ok \in BOOLEAN : create_pet(ok)

SpecCreate == InitCreate /\ [][NextCreate]_vars

\* create_pet has returned None after its INSERT INTO pets went through
FailedAfterRow ==
    /\ call.fn = "create"
    /\ call.pc = "done"
    /\ call.result = "failed"
    /\ call.pet_id # 0

\* C39: pet creation is all-or-nothing: when create_pet fails after the
\* pets row was inserted, no active pets row remains from that attempt.
C39_FailedCreationLeavesNoRow ==
    FailedAfterRow => \A row \in call.pets : row.pet_id # call.pet_id

\* a failed creation never counts toward the pet limit: the active rows of
\* a user are the pets whose creation returned a pet id
C39_LimitCountsCreatedPets ==
    (call.fn = "create" /\ call.pc \in {"idle", "done"}) =>
        \A u \in Users : get_user_pet_count(call.pets, u) = call.total_pets[u]

\* a creation that fails at its first statement leaves the tables as they were
C39_FailureBeforeRowChangesNothing ==
    [][(call.fn = "create" /\ call.pc = "insert_pet" /\ call'.result = "failed") =>
          /\ call'.pets = call.pets
          /\ call'.stats_rows = call.stats_rows
          /\ call'.total_pets = call.total_pets]_vars

\* a creation that returns a pet id has written all three tables
C39_CreatedPetIsComplete ==
    [][(call.fn = "create" /\ call'.result = "created" /\ call.result # "created") =>
          /\ [pet_id |-> call.pet_id, user_id |-> call.user] \in call'.pets
          /\ call.pet_id \in call'.stats_rows
          /\ call'.total_pets[call.user] = call.total_pets[call.user] + 1]_vars

====
